---- MODULE Spec2Model ----
(***************************************************************************)
(* Kalshi alpha suite: the signed exchange gateway (kalshi_client/client), *)
(* the three signal producers, the Kelly sizer / order builder and the     *)
(* orchestrator loop (kalshi_alpha_suite).                                 *)
(*                                                                         *)
(* Probabilities are exact rationals in thousandths (PROB_ONE = 1.0),      *)
(* money is in cents.  Python floats are modelled by exact arithmetic.     *)
(***************************************************************************)
EXTENDS Integers, Sequences, FiniteSets, TLC

\* ------------------------------------------------------------------------
\* Bounds of the model
\* ------------------------------------------------------------------------
MaxBudget == 3
MaxRetryAfter == 2

\* ------------------------------------------------------------------------
\* Program constants
\* ------------------------------------------------------------------------
DEFAULT_RETRIES == 3
DEFAULT_WAIT == 2
HTTP_TOO_MANY == 429
HTTP_NO_CONTENT == 204
HTTP_ERROR_MIN == 400

VARIABLES
    gw_pc,        \* position inside KalshiClient._request
    gw_budget,    \* the _retries argument of the outermost call
    gw_retries,   \* the _retries argument of the current (recursive) call
    gw_signs,     \* number of calls of auth.get_auth_headers so far
    gw_headers,   \* the headers held by the current call (serial of the signature)
    gw_log,       \* history: <<kind, value>> events of this request
    gw_resp,      \* the response being handled
    gw_resps,     \* history: every response received by this request, in order
    gw_wait,      \* the pending time.sleep argument
    gw_result,    \* what the outermost _request returned or raised
    pr_fn,        \* pure-function harness: the function under evaluation
    pr_in,        \* its arguments
    pr_out,       \* its result
    pr_pc,        \* "input" before the call, "output" after it
    or_pc,        \* orchestrator main(): position in the loop
    or_cfg,       \* the SuiteConfig loaded at startup
    or_bankroll,  \* bankroll_usd of main(), in cents
    or_cycle,     \* number of cycles started so far
    or_tasks,     \* the three producer tasks of the current cycle
    or_stale,     \* producer tasks of abandoned cycles that still run
    or_signals,   \* all_signals handed to process_signals
    or_idx,       \* process_signals: index of the signal being handled
    or_order,     \* process_signals: the order built for that signal
    or_orders,    \* process_signals: the orders list
    or_journal,   \* the lines of paper_trades.jsonl
    or_posts,     \* history: every POST /portfolio/orders sent by place_order
    or_passed,    \* history: the argument of this cycle's process_signals call
    or_slept,     \* history: the inter-cycle sleep ran since the last cycle
    or_failed,    \* history: the current cycle raised
    or_interrupted, \* history: KeyboardInterrupt / CancelledError was delivered
    sc_reqs,      \* history: the GET /markets requests sent, as [limit, fetched]
    sc_gets,      \* history: the GET .../orderbook requests answered, as <<ticker, status>>
    or_creds,     \* whether a private key (base64 or path) is configured
    or_reads,     \* history: the answers of GET /portfolio/balance (<<>> = it raised)
    sc_pc,        \* scan_all_open_markets: position in the pagination loop
    sc_served,    \* the frozen market set and how the exchange pages it
    sc_limit,     \* the limit argument
    sc_cursor,    \* cursor: 0 is None, n > 0 the offset the exchange handed out
    sc_fetched,   \* fetched
    sc_resp,      \* resp of the current get_markets call
    sc_tasks,     \* results of the scan_market tasks of the page (<<>> = pending)
    sc_signals,   \* signals
    sc_scanned,   \* history: the ticker of every scan_market call, in order
    sc_listfail,  \* history: a get_markets call raised
    sc_result     \* what scan_all_open_markets returned or raised

gwvars == <<gw_pc, gw_budget, gw_retries, gw_signs, gw_headers, gw_log,
            gw_resp, gw_resps, gw_wait, gw_result>>

prvars == <<pr_fn, pr_in, pr_out, pr_pc>>

orvars == <<or_pc, or_cfg, or_bankroll, or_cycle, or_tasks, or_stale, or_signals,
            or_idx, or_order, or_orders, or_journal, or_posts, or_passed, or_slept,
            or_failed, or_interrupted, or_reads, or_creds>>

scvars == <<sc_pc, sc_served, sc_limit, sc_cursor, sc_fetched, sc_resp, sc_tasks,
            sc_signals, sc_scanned, sc_listfail, sc_result, sc_gets, sc_reqs>>

vars == <<gwvars, prvars, orvars, scvars>>

\* What each component leaves alone.
GwOthers == <<prvars, orvars, scvars>>
PrOthers == <<gwvars, orvars, scvars>>
OrOthers == <<gwvars, prvars, scvars>>
ScOthers == <<gwvars, prvars, orvars>>

Producers == {"orderbook", "nlp", "arbitrage"}

\* The state of a component that is not running.
NoResponse == [status |-> 0, retry_after |-> <<>>, text |-> ""]
NoResult == [kind |-> "none", status |-> 0, message |-> "", body |-> {}]

GwIdle ==
    /\ gw_pc = "idle"
    /\ gw_budget = 0
    /\ gw_retries = 0
    /\ gw_signs = 0
    /\ gw_headers = 0
    /\ gw_log = <<>>
    /\ gw_resp = NoResponse
    /\ gw_resps = <<>>
    /\ gw_wait = 0
    /\ gw_result = NoResult

PrIdle ==
    /\ pr_fn = "none"
    /\ pr_in = <<>>
    /\ pr_out = <<>>
    /\ pr_pc = "idle"

NoTask == [state |-> "none", signals |-> <<>>]

OrIdle ==
    /\ or_pc = "idle"
    /\ or_cfg = <<>>
    /\ or_bankroll = 0
    /\ or_cycle = 0
    /\ or_tasks = [p \in Producers |-> NoTask]
    /\ or_stale = 0
    /\ or_signals = <<>>
    /\ or_idx = 0
    /\ or_order = <<>>
    /\ or_orders = <<>>
    /\ or_journal = <<>>
    /\ or_posts = <<>>
    /\ or_passed = <<>>
    /\ or_slept = FALSE
    /\ or_failed = FALSE
    /\ or_interrupted = FALSE
    /\ or_reads = <<>>
    /\ or_creds = TRUE

NoPage == [markets |-> <<>>, cursor |-> 0]
NoScan == [kind |-> "none", signals |-> <<>>]

ScIdle ==
    /\ sc_pc = "idle"
    /\ sc_served = <<>>
    /\ sc_limit = 0
    /\ sc_cursor = 0
    /\ sc_fetched = 0
    /\ sc_resp = NoPage
    /\ sc_tasks = <<>>
    /\ sc_signals = <<>>
    /\ sc_scanned = <<>>
    /\ sc_listfail = FALSE
    /\ sc_result = NoScan
    /\ sc_gets = <<>>
    /\ sc_reqs = <<>>


\* ------------------------------------------------------------------------
\* Generic helpers
\* ------------------------------------------------------------------------
SelectKind(log, k) == SelectSeq(log, LAMBDA e : e[1] = k)

\* Integer division rounding toward zero, as Python's int() of a quotient.
TruncDiv(n, d) == IF n >= 0 THEN n \div d ELSE -((-n) \div d)

RECURSIVE GCD(_, _)
GCD(a, b) == IF b = 0 THEN a ELSE GCD(b, a % b)

\* <<(a * m) \div d, (a * m) % d>> for 0 <= a < d and m >= 0, by doubling, so
\* that no intermediate value exceeds 32 bits.
RECURSIVE MulDiv(_, _, _)
MulDiv(a, m, d) ==
    IF m = 0 THEN <<0, 0>>
    ELSE LET h == MulDiv(a, m \div 2, d)
             r2 == 2 * h[2] + (IF m % 2 = 1 THEN a ELSE 0)
         IN <<2 * h[1] + (r2 \div d), r2 % d>>

\* <<q, r>> with n * scale = q * d + r and 0 <= r < d, for d > 0, scale >= 0.
ScaledDiv(n, d, scale) ==
    LET part == MulDiv(n % d, scale, d)
    IN <<(n \div d) * scale + part[1], part[2]>>

\* round(n * scale / d), ties to even.
RoundScaled(n, d, scale) ==
    LET x == ScaledDiv(n, d, scale)
    IN IF 2 * x[2] < d THEN x[1]
       ELSE IF 2 * x[2] > d THEN x[1] + 1
       ELSE IF x[1] % 2 = 0 THEN x[1] ELSE x[1] + 1

Min(a, b) == IF a <= b THEN a ELSE b
Max(a, b) == IF a >= b THEN a ELSE b
Abs(a) == IF a >= 0 THEN a ELSE -a

\* Optional values: <<>> is None, <<x>> is x.
None == <<>>
Some(x) == <<x>>

\* ========================================================================
\* Data model  (src/kalshi_alpha_suite/models.py, config.py)
\* ========================================================================
PROB_ONE == 1000                 \* probability 1.0 in thousandths
KALSHI_FEE_RATE_PCT == 7         \* kalshi_fee_rate = 0.07
SPREAD_THRESHOLD_CENTS == 3
KELLY_EDGE_MIN_PCT == 5          \* kelly_edge_min = 0.05
NLP_PROB_SHIFT_MIN == 100        \* nlp_prob_shift_min = 0.10
MAX_POSITION_CENTS == 50000      \* max_position_usd = 500.0
KELLY_FRACTION_PCT == 25         \* kelly_fraction = 0.25

Sides == {"yes", "no"}
Sources == {"orderbook", "nlp", "arbitrage"}

\* Signal(source, ticker, side, implied_prob, estimated_fair_prob, edge,
\* confidence); confidence is the exact rational <<num, den>>.
MkSignal(source, ticker, side, implied, fair, edge, confidence) ==
    [source |-> source, ticker |-> ticker, side |-> side,
     implied_prob |-> implied, estimated_fair_prob |-> fair,
     edge |-> edge, confidence |-> confidence]

\* Kelly: f* = (p(b+1) - 1) / b with p = P/1000 and b = bn/bd, as the exact
\* rational <<num, den>>; 0 when b <= 0.
KellyRationalNoStake(P, bn, bd) ==
    IF bn <= 0 THEN <<0, 1>>
    ELSE <<P * bn - PROB_ONE * bd, PROB_ONE * bn>>

KellyRational(P, bn, bd) ==
    IF bn <= 0 THEN <<0, 1>>
    ELSE <<P * (bn + bd) - PROB_ONE * bd, PROB_ONE * bn>>

\* ========================================================================
\* B. Orderbook scanner  (src/kalshi_alpha_suite/agents/orderbook_agent.py)
\* ========================================================================

\* _parse_orderbook: a book is [yes |-> prices best-first, no |-> prices].
ParseOrderbook(ticker, book) ==
    IF book.yes = <<>> /\ book.no = <<>> THEN None
    ELSE LET best_yes_bid == IF book.yes # <<>> THEN book.yes[1] ELSE 0
             best_no_bid == IF book.no # <<>> THEN book.no[1] ELSE 0
             synthetic_yes_ask == IF best_no_bid > 0 THEN 100 - best_no_bid ELSE 100
         IN Some([ticker |-> ticker,
                  best_yes_bid |-> best_yes_bid,
                  best_no_bid |-> best_no_bid,
                  synthetic_yes_ask |-> synthetic_yes_ask,
                  spread_cents |-> synthetic_yes_ask - best_yes_bid])

\* scan_market: fetch = [ok |-> get_orderbook succeeded, book |-> the book].
ScanMarketNonStrict(ticker, fetch, threshold) ==
    IF ~fetch.ok THEN None
    ELSE LET parsed == ParseOrderbook(ticker, fetch.book)
         IN IF parsed = None THEN None
            ELSE LET snap == parsed[1]
                 IN IF snap.spread_cents < threshold THEN None
                    ELSE LET midpoint == (snap.best_yes_bid + snap.synthetic_yes_ask) * 5
                             implied == IF snap.best_yes_bid # 0
                                        THEN snap.best_yes_bid * 10
                                        ELSE PROB_ONE \div 2
                         IN Some(MkSignal("orderbook", ticker, "yes", implied, midpoint,
                                          midpoint - implied,
                                          <<Min(snap.spread_cents, 10), 10>>))

ScanMarket(ticker, fetch, threshold) ==
    IF ~fetch.ok THEN None
    ELSE LET parsed == ParseOrderbook(ticker, fetch.book)
         IN IF parsed = None THEN None
            ELSE LET snap == parsed[1]
                 IN IF snap.spread_cents <= threshold THEN None
                    ELSE LET midpoint == (snap.best_yes_bid + snap.synthetic_yes_ask) * 5
                             implied == IF snap.best_yes_bid # 0
                                        THEN snap.best_yes_bid * 10
                                        ELSE PROB_ONE \div 2
                         IN Some(MkSignal("orderbook", ticker, "yes", implied, midpoint,
                                          midpoint - implied,
                                          <<Min(snap.spread_cents, 10), 10>>))

\* ========================================================================
\* C. News analyzer  (src/kalshi_alpha_suite/agents/nlp_agent.py)
\* ========================================================================

\* The inner loops of NLPAgent.run for one raw item: raw = [prob_shift,
\* confidence] in thousandths, tickers = what resolve_tickers returned.
NlpItemSignals(raw, tickers, shift_min) ==
    IF Abs(raw.prob_shift) < shift_min THEN <<>>
    ELSE IF tickers = <<>> THEN <<>>
    ELSE LET side == IF raw.prob_shift > 0 THEN "yes" ELSE "no"
         IN [i \in 1..Len(tickers) |->
                MkSignal("nlp", tickers[i], side, PROB_ONE \div 2,
                         PROB_ONE \div 2 + raw.prob_shift,
                         Abs(raw.prob_shift),
                         <<raw.confidence, PROB_ONE>>)]

\* Text is held as a sequence of one-character strings.
UpperChars ==
    <<"A", "B", "C", "D", "E", "F", "G", "H", "I", "J", "K", "L", "M",
      "N", "O", "P", "Q", "R", "S", "T", "U", "V", "W", "X", "Y", "Z">>

LowerChars ==
    <<"a", "b", "c", "d", "e", "f", "g", "h", "i", "j", "k", "l", "m",
      "n", "o", "p", "q", "r", "s", "t", "u", "v", "w", "x", "y", "z">>

\* str.lower()
LowerChar(c) ==
    IF \E i \in 1..Len(UpperChars) : UpperChars[i] = c
    THEN LowerChars[CHOOSE i \in 1..Len(UpperChars) : UpperChars[i] = c]
    ELSE c

Lower(text) == [i \in 1..Len(text) |-> LowerChar(text[i])]

\* `sub in text`
Contains(text, sub) ==
    \E k \in 0..(Len(text) - Len(sub)) : SubSeq(text, k + 1, k + Len(sub)) = sub

\* One element of the parsed LLM answer becomes an NLPSignalRaw unless
\* building it raises KeyError (a key is missing), TypeError (the element
\* is not an object) or ValueError (float() rejects a number field).
ItemToRaw(elem) ==
    IF elem.type # "object" THEN <<>>
    ELSE IF elem.ticker_keyword = None \/ ~elem.has_side THEN <<>>
    ELSE IF elem.prob_shift = None \/ elem.confidence = None THEN <<>>
    ELSE IF ~elem.numeric THEN <<>>
    ELSE <<[ticker_keyword |-> elem.ticker_keyword[1],
            prob_shift |-> elem.prob_shift[1],
            confidence |-> elem.confidence[1]]>>

\* analyze_headline: [] when the API call fails or the text is not JSON;
\* a parsed value that is not a list is wrapped in a list (lines 119-120).
AnalyzeHeadline(resp) ==
    IF resp.kind = "api_error" THEN <<>>
    ELSE IF resp.kind = "empty" THEN <<>>
    ELSE IF resp.kind = "not_json" THEN <<>>
    ELSE LET parsed == IF resp.type = "array" THEN resp.items ELSE <<resp.value>>
             RECURSIVE Collect(_)
             Collect(items) == IF items = <<>> THEN <<>>
                               ELSE ItemToRaw(Head(items)) \o Collect(Tail(items))
         IN Collect(parsed)

\* get_markets(status="open", limit=50) of resolve_tickers: the exchange
\* answers with at most `limit` of its open markets.
RESOLVE_LIMIT == 50
GetOpenMarkets(open_markets, limit) == SubSeq(open_markets, 1, Min(limit, Len(open_markets)))

\* resolve_tickers: the tickers of the listed markets whose ticker or title
\* contains the keyword, both lowercased; [] when the lookup raises.
ResolveTickers(keyword, lookup) ==
    IF ~lookup.ok THEN <<>>
    ELSE LET hit == SelectSeq(lookup.markets,
                              LAMBDA m : \/ Contains(Lower(m.ticker), Lower(keyword))
                                         \/ Contains(Lower(m.title), Lower(keyword)))
         IN [i \in 1..Len(hit) |-> hit[i].ticker]

\* NLPAgent.run over the fetched feeds: responses[i] is the LLM answer for
\* feed i, open_markets the exchange's open markets, failing the keywords
\* whose ticker lookup raises.  raw: the items of each feed; signals: the
\* returned list.
NlpRun(responses, open_markets, failing, shift_min) ==
    LET raw == [i \in 1..Len(responses) |-> AnalyzeHeadline(responses[i])]
        ItemSignals(item) ==
            NlpItemSignals(item,
                           IF Abs(item.prob_shift) < shift_min THEN <<>>
                           ELSE ResolveTickers(item.ticker_keyword,
                                               [ok |-> item.ticker_keyword \notin failing,
                                                markets |-> GetOpenMarkets(open_markets,
                                                                           RESOLVE_LIMIT)]),
                           shift_min)
        RECURSIVE FeedSignals(_)
        FeedSignals(items) == IF items = <<>> THEN <<>>
                              ELSE ItemSignals(Head(items)) \o FeedSignals(Tail(items))
        RECURSIVE AllFeeds(_)
        AllFeeds(k) == IF k > Len(raw) THEN <<>> ELSE FeedSignals(raw[k]) \o AllFeeds(k + 1)
    IN [raw |-> raw, signals |-> AllFeeds(1)]

\* ========================================================================
\* D. Arbitrage scanner  (src/kalshi_alpha_suite/agents/arbitrage_agent.py)
\* ========================================================================

\* title.split(): the words between runs of blanks.
RECURSIVE SplitFrom(_, _)
SplitFrom(text, word) ==
    IF text = <<>> THEN (IF word = <<>> THEN <<>> ELSE <<word>>)
    ELSE IF Head(text) = " "
         THEN (IF word = <<>> THEN <<>> ELSE <<word>>) \o SplitFrom(Tail(text), <<>>)
         ELSE SplitFrom(Tail(text), Append(word, Head(text)))

Split(text) == SplitFrom(text, <<>>)

\* w.strip("?.!,"): the characters are removed at both ends.
STRIP_CHARS == {"?", ".", "!", ","}

RECURSIVE StripLeft(_)
StripLeft(word) ==
    IF word # <<>> /\ Head(word) \in STRIP_CHARS THEN StripLeft(Tail(word)) ELSE word

RECURSIVE StripRight(_)
StripRight(word) ==
    IF word # <<>> /\ word[Len(word)] \in STRIP_CHARS
    THEN StripRight(SubSeq(word, 1, Len(word) - 1)) ELSE word

Strip(word) == StripRight(StripLeft(word))

\* _tokens: {w.lower().strip("?.!,") for w in title.split() if len(w) > 3}
MIN_WORD_LEN == 3
Tokens(title) ==
    LET words == Split(title)
    IN {Strip(Lower(words[i])) : i \in {j \in 1..Len(words) : Len(words[j]) > MIN_WORD_LEN}}

\* km.get("title", "") and em.get("question", em.get("title", ""))
KalshiTitle(km) == IF km.title # None THEN km.title[1] ELSE <<>>
ExternalTitle(em) ==
    IF em.question # None THEN em.question[1]
    ELSE IF em.title # None THEN em.title[1] ELSE <<>>

\* The inner loop of _match_markets: the first external market sharing at
\* least MIN_OVERLAP tokens, as a list of at most one.
MIN_OVERLAP == 3

RECURSIVE FirstExternal(_, _)
FirstExternal(kt, ems) ==
    IF ems = <<>> THEN <<>>
    ELSE IF Cardinality(kt \cap Tokens(ExternalTitle(Head(ems)))) >= MIN_OVERLAP
         THEN <<Head(ems)>>
         ELSE FirstExternal(kt, Tail(ems))

\* _match_markets: the (exchange market, external market) pairs.
RECURSIVE MatchMarkets(_, _)
MatchMarkets(kms, ems) ==
    IF kms = <<>> THEN <<>>
    ELSE LET km == Head(kms)
             kt == Tokens(KalshiTitle(km))
             found == IF kt = {} THEN <<>> ELSE FirstExternal(kt, ems)
         IN [i \in 1..Len(found) |-> <<km, found[i]>>] \o MatchMarkets(Tail(kms), ems)

\* (km.get("yes_price", 0) or km.get("last_price", 50)) / 100, in thousandths.
KalshiProb(km) ==
    LET yes_price == IF km.yes_price # None THEN km.yes_price[1] ELSE 0
        last_price == IF km.last_price # None THEN km.last_price[1] ELSE 50
    IN (IF yes_price # 0 THEN yes_price ELSE last_price) * 10

\* em.get("outcomePrices", [None, None])[0]
\*   or em.get("yes_price", em.get("lastTradePrice", 0.5)); float(...) of it.
\* A field holds thousandths, or NOT_A_NUMBER for text float() rejects.
NOT_A_NUMBER == -1
ExtProb(em) ==
    LET first == IF em.outcomePrices # None THEN em.outcomePrices[1] ELSE 0
    IN IF first # 0 THEN first
       ELSE IF em.yes_price # None THEN em.yes_price[1]
       ELSE IF em.lastTradePrice # None THEN em.lastTradePrice[1]
       ELSE PROB_ONE \div 2

\* The body of the `for km, em in pairs` loop of ArbitrageAgent.scan.
ArbPairSignal(km, em, edge_min_pct) ==
    LET kalshi_prob == KalshiProb(km)
        ext_prob == ExtProb(em)
        edge == ext_prob - kalshi_prob
        side == IF edge > 0 THEN "yes" ELSE "no"
        p == IF edge > 0 THEN ext_prob ELSE PROB_ONE - ext_prob
        market_price == IF edge > 0 THEN kalshi_prob ELSE PROB_ONE - kalshi_prob
        f_star == KellyRational(p, PROB_ONE - market_price, market_price)
    IN IF ext_prob = NOT_A_NUMBER THEN None
       ELSE IF edge = 0 THEN None
       ELSE IF market_price <= 0 \/ market_price >= PROB_ONE THEN None
       ELSE IF f_star[1] * 100 < edge_min_pct * f_star[2] THEN None
       ELSE Some(MkSignal("arbitrage", km.ticker, side, kalshi_prob,
                          IF side = "yes" THEN ext_prob ELSE PROB_ONE - ext_prob,
                          Abs(edge),
                          IF f_star[1] >= f_star[2] THEN <<1, 1>> ELSE f_star))

\* ========================================================================
\* E. Risk & execution  (src/kalshi_alpha_suite/agents/risk_execution_agent.py)
\* ========================================================================
MIN_PRICE_CENTS == 1
MAX_PRICE_CENTS == 99

\* SuiteConfig with the defaults of config.py.
DefaultCfg(paper) ==
    [paper_trading |-> paper,
     kalshi_fee_rate_pct |-> KALSHI_FEE_RATE_PCT,
     spread_threshold_cents |-> SPREAD_THRESHOLD_CENTS,
     kelly_edge_min_pct |-> KELLY_EDGE_MIN_PCT,
     nlp_prob_shift_min |-> NLP_PROB_SHIFT_MIN,
     max_position_cents |-> MAX_POSITION_CENTS,
     kelly_fraction_pct |-> KELLY_FRACTION_PCT]

MkKelly(f_star, position_cents, net_ev_e4, should_trade) ==
    [optimal_fraction |-> f_star, position_size_cents |-> position_cents,
     net_ev_e4 |-> net_ev_e4, should_trade |-> should_trade]

\* size(): Kelly sizing with the fee on profit.  position_size_cents is
\* round(position_usd, 2) in cents, net_ev_e4 is round(net_ev, 4) * 10^4.
SizeNoCap(signal, bankroll_cents, cfg) ==
    LET p == IF signal.side = "yes" THEN signal.estimated_fair_prob
             ELSE PROB_ONE - signal.estimated_fair_prob
        market_price == IF signal.side = "yes" THEN signal.implied_prob
                        ELSE PROB_ONE - signal.implied_prob
        \* b = ((1 / market_price) - 1) * (1 - fee_rate) = bn / bd
        bn == (PROB_ONE - market_price) * (100 - cfg.kalshi_fee_rate_pct)
        bd == 100 * market_price
        f_star == KellyRational(p, bn, bd)
        \* f_used = max(0, f_star * kelly_fraction) = a / d
        g == GCD(cfg.kelly_fraction_pct, 100)
        a == Max(0, f_star[1])
        d == f_star[2] * (100 \div g)
        m == bankroll_cents * (cfg.kelly_fraction_pct \div g)
        exact == ScaledDiv(a, d, m)
        position_cents == RoundScaled(a, d, m)
        position_positive == (exact[1] > 0 \/ exact[2] > 0) /\ cfg.max_position_cents > 0
        \* net_ev = p * b - (1 - p) = ev_num / (PROB_ONE * bd)
        ev_num == p * bn - (PROB_ONE - p) * bd
        net_ev_e4 == RoundScaled(ev_num, PROB_ONE * bd, 10000)
        should_trade ==
            /\ f_star[1] > (cfg.kelly_edge_min_pct * f_star[2]) \div 100
            /\ ev_num > 0
            /\ position_positive
    IN IF market_price <= 0 \/ market_price >= PROB_ONE
       THEN MkKelly(<<0, 1>>, 0, 0, FALSE)
       ELSE MkKelly(f_star, position_cents, net_ev_e4, should_trade)

Size(signal, bankroll_cents, cfg) ==
    LET p == IF signal.side = "yes" THEN signal.estimated_fair_prob
             ELSE PROB_ONE - signal.estimated_fair_prob
        market_price == IF signal.side = "yes" THEN signal.implied_prob
                        ELSE PROB_ONE - signal.implied_prob
        \* b = ((1 / market_price) - 1) * (1 - fee_rate) = bn / bd
        bn == (PROB_ONE - market_price) * (100 - cfg.kalshi_fee_rate_pct)
        bd == 100 * market_price
        f_star == KellyRational(p, bn, bd)
        \* f_used = max(0, f_star * kelly_fraction) = a / d
        g == GCD(cfg.kelly_fraction_pct, 100)
        a == Max(0, f_star[1])
        d == f_star[2] * (100 \div g)
        m == bankroll_cents * (cfg.kelly_fraction_pct \div g)
        exact == ScaledDiv(a, d, m)
        position_cents ==
            IF exact[1] >= cfg.max_position_cents THEN cfg.max_position_cents
            ELSE RoundScaled(a, d, m)
        position_positive == (exact[1] > 0 \/ exact[2] > 0) /\ cfg.max_position_cents > 0
        \* net_ev = p * b - (1 - p) = ev_num / (PROB_ONE * bd)
        ev_num == p * bn - (PROB_ONE - p) * bd
        net_ev_e4 == RoundScaled(ev_num, PROB_ONE * bd, 10000)
        should_trade ==
            /\ f_star[1] > (cfg.kelly_edge_min_pct * f_star[2]) \div 100
            /\ ev_num > 0
            /\ position_positive
    IN IF market_price <= 0 \/ market_price >= PROB_ONE
       THEN MkKelly(<<0, 1>>, 0, 0, FALSE)
       ELSE MkKelly(f_star, position_cents, net_ev_e4, should_trade)

\* `max(1, min(99, price_cents))`
ClampPriceNoCeil(price_cents) == Max(MIN_PRICE_CENTS, price_cents)
ClampPrice(price_cents) == Max(MIN_PRICE_CENTS, Min(MAX_PRICE_CENTS, price_cents))

\* Variant of build_order that rounds the number of contracts up.
BuildOrderCeil(signal, kelly, cfg) ==
    IF ~kelly.should_trade THEN None
    ELSE LET raw_cents == TruncDiv(signal.implied_prob * 100, PROB_ONE)
             sided == IF signal.side = "no" THEN 100 - raw_cents ELSE raw_cents
             price_cents == ClampPrice(sided)
             contracts == Max(1, TruncDiv(kelly.position_size_cents + price_cents - 1,
                                          price_cents))
         IN Some([ticker |-> signal.ticker,
                  side |-> signal.side,
                  contracts |-> contracts,
                  limit_price_cents |-> price_cents,
                  signal |-> signal,
                  kelly |-> kelly,
                  paper |-> cfg.paper_trading,
                  order_id |-> None,
                  fill_price_cents |-> None])

\* build_order(): None when the gate is closed, else the TradeOrder.
BuildOrder(signal, kelly, cfg) ==
    IF ~kelly.should_trade THEN None
    ELSE LET raw_cents == TruncDiv(signal.implied_prob * 100, PROB_ONE)
             sided == IF signal.side = "no" THEN 100 - raw_cents ELSE raw_cents
             price_cents == ClampPrice(sided)
             contracts == Max(1, TruncDiv(kelly.position_size_cents, price_cents))
         IN Some([ticker |-> signal.ticker,
                  side |-> signal.side,
                  contracts |-> contracts,
                  limit_price_cents |-> price_cents,
                  signal |-> signal,
                  kelly |-> kelly,
                  paper |-> cfg.paper_trading,
                  order_id |-> None,
                  fill_price_cents |-> None])

\* ========================================================================
\* Pure-function harness: the arguments are drawn in the initial state and
\* one action applies the function.
\* ========================================================================
GridSize == 200

\* Probabilities in [0, 1] on a grid, with the edges of the cent grid added.
GridProbs ==
    {(i * PROB_ONE) \div GridSize : i \in 0..GridSize} \cup {1, 9, 11, 296, 989, 991, 999}

PositionSamples == {0, 1, 50, 99, 100, 101, 12345, MAX_POSITION_CENTS}

KellySamples ==
    {MkKelly(<<1, 5>>, pos, 2000, st) : pos \in PositionSamples, st \in BOOLEAN}

BuildOrderInputs ==
    [signal : {MkSignal("orderbook", "T1", side, implied, PROB_ONE \div 2, 0, <<1, 1>>) :
                  side \in Sides, implied \in GridProbs},
     kelly : KellySamples,
     paper : BOOLEAN]

BookSides == {<<>>} \cup {<<c>> : c \in MIN_PRICE_CENTS..MAX_PRICE_CENTS} \cup {<<40, 38>>}

ScanMarketInputs ==
    [ok : {TRUE}, book : [yes : BookSides, no : BookSides]]
    \cup [ok : {FALSE}, book : {[yes |-> <<>>, no |-> <<>>]}]

NlpInputs ==
    [raw : [prob_shift : {x - PROB_ONE : x \in {2 * g : g \in GridProbs}},
            confidence : {0, 800, PROB_ONE}],
     tickers : {<<>>, <<"T1">>, <<"T1", "T2">>}]

ArbInputs ==
    [km : [ticker : {"T1"},
           yes_price : {None} \cup {Some(c) : c \in {0, 1, 25, 35, 50, 65, 99, 100}},
           last_price : {None, Some(40)}],
     em : [outcomePrices : {None} \cup {Some(x) : x \in {0, 300, 500, 700, PROB_ONE}},
           yes_price : {None} \cup {Some(x) : x \in {NOT_A_NUMBER, 0, 200, 350, 650, 990}},
           lastTradePrice : {None, Some(450)}]]

\* Keywords and markets of the news pipeline.
KwRain == <<"R", "a", "i", "n">>
KwFed == <<"f", "e", "d">>
KwSnow == <<"s", "n", "o", "w">>

MarketRain == [ticker |-> <<"R", "A", "I", "N", "N", "Y", "C">>, title |-> <<"W", "i", "l", "l", " ", "i", "t", " ", "r", "a", "i", "n", " ", "i", "n", " ", "N", "Y", "C", "?">>]
MarketFed == [ticker |-> <<"F", "E", "D", "-", "2", "5">>, title |-> <<"R", "a", "t", "e", " ", "c", "u", "t", "?">>]
MarketRainLA == [ticker |-> <<"K", "X", "L", "A">>, title |-> <<"R", "A", "I", "N", " ", "i", "n", " ", "L", "A">>]

\* A market no keyword matches, with a ticker of its own.
FillerMarket(i) == [ticker |-> <<"X">> \o [k \in 1..i |-> "x"], title |-> <<"o", "t", "h", "e", "r">>]

\* The exchange's open markets, in listing order; the last list has one
\* market more than a lookup asks for.
OpenMarketLists ==
    { <<>>,
      <<MarketRain, MarketFed>>,
      <<MarketFed, MarketRain, MarketRainLA>>,
      [i \in 1..(RESOLVE_LIMIT + 1) |-> IF i <= RESOLVE_LIMIT THEN FillerMarket(i) ELSE MarketRain] }

\* An element of the JSON value the LLM returned.
JsonElem(type, keyword, shift, confidence, numeric) ==
    [type |-> type, ticker_keyword |-> keyword, has_side |-> TRUE,
     prob_shift |-> shift, confidence |-> confidence, numeric |-> numeric]

ElemRainUp == JsonElem("object", Some(KwRain), Some(300), Some(800), TRUE)
ElemRainDown == JsonElem("object", Some(KwRain), Some(-300), Some(600), TRUE)
ElemFedDown == JsonElem("object", Some(KwFed), Some(-100), Some(500), TRUE)
ElemFedWeak == JsonElem("object", Some(KwFed), Some(99), Some(900), TRUE)
ElemSnow == JsonElem("object", Some(KwSnow), Some(400), Some(700), TRUE)
ElemNoKeyword == JsonElem("object", None, Some(400), Some(700), TRUE)
ElemBadNumber == JsonElem("object", Some(KwRain), Some(0), Some(0), FALSE)
ElemNumber == JsonElem("number", None, None, None, TRUE)

\* The answers of the LLM: kind "json" carries the decoded value, an array
\* (items) or another JSON value (value).
LlmResponse(kind, type, items, value) ==
    [kind |-> kind, type |-> type, items |-> items, value |-> value]

LlmResponses ==
    { LlmResponse("api_error", "none", <<>>, ElemNumber),
      LlmResponse("empty", "none", <<>>, ElemNumber),
      LlmResponse("not_json", "none", <<>>, ElemNumber),
      LlmResponse("json", "array", <<>>, ElemNumber),
      LlmResponse("json", "array", <<ElemRainUp>>, ElemNumber),
      LlmResponse("json", "array", <<ElemSnow, ElemFedDown>>, ElemNumber),
      LlmResponse("json", "array", <<ElemNoKeyword, ElemRainDown, ElemFedWeak>>, ElemNumber),
      LlmResponse("json", "array", <<ElemBadNumber, ElemNumber, ElemFedDown>>, ElemNumber),
      LlmResponse("json", "object", <<>>, ElemRainUp),
      LlmResponse("json", "number", <<>>, ElemNumber) }

NlpRunInputs ==
    [responses : {<<r>> : r \in LlmResponses} \cup {<<r, q>> : r, q \in LlmResponses},
     open_markets : OpenMarketLists,
     failing : SUBSET {KwRain, KwFed}]

\* Titles of the two venues for the matching of _match_markets.
MatchKalshi ==
    { [ticker |-> "K1", title |-> Some(<<"W", "i", "l", "l", " ", "T", "r", "u", "m", "p", " ", "w", "i", "n", "?">>)],
      [ticker |-> "K2", title |-> Some(<<"W", "i", "l", "l", " ", "r", "a", "i", "n", " ", "f", "a", "l", "l", " ", "t", "o", "d", "a", "y">>)],
      [ticker |-> "K3", title |-> Some(<<"F", "e", "d", " ", "c", "u", "t", " ", "i", "n", " ", "M", "a", "y">>)],
      [ticker |-> "K4", title |-> None] }

MatchExternal ==
    { [id |-> "E1", question |-> Some(<<"w", "i", "l", "l", " ", "T", "R", "U", "M", "P", " ", "w", "i", "n", "?">>), title |-> None],
      [id |-> "E2", question |-> None, title |-> Some(<<"H", "e", "a", "v", "y", " ", " ", "r", "a", "i", "n", " ", "w", "i", "l", "l", " ", "f", "a", "l", "l", ",", " ", "t", "o", "d", "a", "y", "!">>)],
      [id |-> "E3", question |-> Some(<<"R", "a", "i", "n", " ", "W", "i", "l", "l", " ", "F", "a", "l", "l", " ", "T", "o", "d", "a", "y", "?">>), title |-> Some(<<"n", "o">>)],
      [id |-> "E4", question |-> None, title |-> None] }

MatchInputs ==
    [kms : UNION {[1..n -> MatchKalshi] : n \in 0..2},
     ems : UNION {[1..n -> MatchExternal] : n \in 0..3}]

\* size(): probabilities on a coarser grid, with the values of the tests.
SizeProbs ==
    {x \in GridProbs : x % 20 = 0} \cup {1, 296, 350, 510, 999}

\* bankroll_usd, in cents.
BankrollSamples == {0, 1, 100000, 200000, MAX_POSITION_CENTS * 10, 10000000}

SizeInputs ==
    [signal : {MkSignal("orderbook", "T1", side, implied, fair, fair - implied, <<1, 1>>) :
                  side \in Sides, implied \in SizeProbs, fair \in SizeProbs},
     bankroll : BankrollSamples]

PrInit ==
    /\ GwIdle
    /\ OrIdle
    /\ ScIdle
    /\ pr_pc = "input"
    /\ pr_out = <<>>
    /\ \/ pr_fn = "build_order" /\ pr_in \in BuildOrderInputs
       \/ pr_fn = "scan_market" /\ pr_in \in ScanMarketInputs
       \/ pr_fn = "nlp" /\ pr_in \in NlpInputs
       \/ pr_fn = "arbitrage" /\ pr_in \in ArbInputs
       \/ pr_fn = "size" /\ pr_in \in SizeInputs
       \/ pr_fn = "size_and_build" /\ pr_in \in SizeInputs
       \/ pr_fn = "nlp_run" /\ pr_in \in NlpRunInputs
       \/ pr_fn = "match_markets" /\ pr_in \in MatchInputs

ApplyBuildOrder ==
    /\ pr_pc = "input" /\ pr_fn = "build_order"
    /\ pr_out' = BuildOrder(pr_in.signal, pr_in.kelly, DefaultCfg(pr_in.paper))
    /\ pr_pc' = "output"
    /\ UNCHANGED <<pr_fn, pr_in, PrOthers>>

ApplyScanMarket ==
    /\ pr_pc = "input" /\ pr_fn = "scan_market"
    /\ pr_out' = ScanMarket("T1", pr_in, SPREAD_THRESHOLD_CENTS)
    /\ pr_pc' = "output"
    /\ UNCHANGED <<pr_fn, pr_in, PrOthers>>

ApplyNlp ==
    /\ pr_pc = "input" /\ pr_fn = "nlp"
    /\ pr_out' = NlpItemSignals(pr_in.raw, pr_in.tickers, NLP_PROB_SHIFT_MIN)
    /\ pr_pc' = "output"
    /\ UNCHANGED <<pr_fn, pr_in, PrOthers>>

ApplyArbitrage ==
    /\ pr_pc = "input" /\ pr_fn = "arbitrage"
    /\ pr_out' = ArbPairSignal(pr_in.km, pr_in.em, KELLY_EDGE_MIN_PCT)
    /\ pr_pc' = "output"
    /\ UNCHANGED <<pr_fn, pr_in, PrOthers>>

ApplySize ==
    /\ pr_pc = "input" /\ pr_fn = "size"
    /\ pr_out' = Size(pr_in.signal, pr_in.bankroll, DefaultCfg(TRUE))
    /\ pr_pc' = "output"
    /\ UNCHANGED <<pr_fn, pr_in, PrOthers>>

\* One turn of the loop of process_signals: size(), then build_order().
ApplySizeAndBuild ==
    /\ pr_pc = "input" /\ pr_fn = "size_and_build"
    /\ pr_out' = BuildOrder(pr_in.signal,
                            Size(pr_in.signal, pr_in.bankroll, DefaultCfg(TRUE)),
                            DefaultCfg(TRUE))
    /\ pr_pc' = "output"
    /\ UNCHANGED <<pr_fn, pr_in, PrOthers>>

ApplyNlpRun ==
    /\ pr_pc = "input" /\ pr_fn = "nlp_run"
    /\ pr_out' = NlpRun(pr_in.responses, pr_in.open_markets, pr_in.failing,
                        NLP_PROB_SHIFT_MIN)
    /\ pr_pc' = "output"
    /\ UNCHANGED <<pr_fn, pr_in, PrOthers>>

ApplyMatchMarkets ==
    /\ pr_pc = "input" /\ pr_fn = "match_markets"
    /\ pr_out' = MatchMarkets(pr_in.kms, pr_in.ems)
    /\ pr_pc' = "output"
    /\ UNCHANGED <<pr_fn, pr_in, PrOthers>>

PrNext ==
    \/ ApplyMatchMarkets
    \/ ApplyNlpRun
    \/ ApplySize
    \/ ApplySizeAndBuild
    \/ ApplyBuildOrder
    \/ ApplyScanMarket
    \/ ApplyNlp
    \/ ApplyArbitrage

ProbeSpec == PrInit /\ [][PrNext]_vars

\* ------------------------------------------------------------------------
\* Producer and order-builder properties
\* ------------------------------------------------------------------------

\* C2: with should_trade the built order has 1 <= limit_price_cents <= 99
\* and contracts >= 1, for either side and any implied_prob in [0, 1];
\* without should_trade there is no order.
C2_OrderWellFormed ==
    (pr_pc = "output" /\ pr_fn = "build_order") =>
        /\ pr_in.kelly.should_trade =>
              /\ pr_out # None
              /\ 1 <= pr_out[1].limit_price_cents
              /\ pr_out[1].limit_price_cents <= 99
              /\ pr_out[1].contracts >= 1
        /\ ~pr_in.kelly.should_trade => pr_out = None

C2_Witness ==
    /\ pr_pc = "output" /\ pr_fn = "build_order"
    /\ pr_in.kelly.should_trade
    /\ pr_in.signal.side = "yes"
    /\ pr_in.signal.implied_prob = PROB_ONE
    /\ pr_in.kelly.position_size_cents = 50
    /\ pr_out # None
    /\ pr_out[1].limit_price_cents = 99
    /\ pr_out[1].contracts = 1

\* The signals a harness call emitted.
EmittedSignals ==
    IF pr_pc # "output" THEN {}
    ELSE IF pr_fn \in {"scan_market", "arbitrage", "nlp"}
    THEN {pr_out[i] : i \in 1..Len(pr_out)}
    ELSE {}

SignalConsistent(sig) ==
    /\ sig.side = "yes" => sig.estimated_fair_prob >= sig.implied_prob
    /\ sig.side = "no" => sig.estimated_fair_prob <= sig.implied_prob
    /\ sig.edge = Abs(sig.estimated_fair_prob - sig.implied_prob)

\* C10: every emitted signal has fair >= implied on the YES side, fair <=
\* implied on the NO side, and edge = |fair - implied|.
C10_SignalConsistent ==
    \A sig \in EmittedSignals : SignalConsistent(sig)

\* A size() call has returned.
SizeDone == pr_pc = "output" /\ pr_fn = "size"

\* The side-adjusted probability and price of the sized signal.
SizedProb ==
    IF pr_in.signal.side = "yes" THEN pr_in.signal.estimated_fair_prob
    ELSE PROB_ONE - pr_in.signal.estimated_fair_prob

SizedPrice ==
    IF pr_in.signal.side = "yes" THEN pr_in.signal.implied_prob
    ELSE PROB_ONE - pr_in.signal.implied_prob

\* f* = p - (1 - p) / net_b with net_b = (1/price - 1)(1 - fee_rate), as
\* the fraction <<num, den>> over den = 1000 * (100 - fee) * (1000 - price).
ExpectedFStar ==
    <<SizedProb * (100 - KALSHI_FEE_RATE_PCT) * (PROB_ONE - SizedPrice)
          - (PROB_ONE - SizedProb) * 100 * SizedPrice,
      PROB_ONE * (100 - KALSHI_FEE_RATE_PCT) * (PROB_ONE - SizedPrice)>>

Reduced(f) == <<f[1] \div GCD(Abs(f[1]), f[2]), f[2] \div GCD(Abs(f[1]), f[2])>>

\* C11: size() sets should_trade exactly when f* > kelly_edge_min, net_ev >
\* 0 and position_usd > 0, f* being the Kelly fraction on the fee-adjusted
\* payout; a side-adjusted price outside (0, 1) gives should_trade = false
\* with fraction, size and EV all 0.
C11_SizingGate ==
    SizeDone =>
        IF SizedPrice <= 0 \/ SizedPrice >= PROB_ONE
        THEN /\ ~pr_out.should_trade
             /\ pr_out.optimal_fraction[1] = 0
             /\ pr_out.position_size_cents = 0
             /\ pr_out.net_ev_e4 = 0
        ELSE /\ Reduced(pr_out.optimal_fraction) = Reduced(ExpectedFStar)
             /\ pr_out.should_trade <=>
                    /\ ExpectedFStar[1] > (KELLY_EDGE_MIN_PCT * ExpectedFStar[2]) \div 100
                    \* net_ev = f* * net_b, and net_b > 0 here
                    /\ ExpectedFStar[1] > 0
                    \* position_usd = min(f_used * bankroll, cap) with f_used > 0
                    /\ pr_in.bankroll > 0

\* test_size_positive_ev: implied 0.40, fair 0.60, bankroll $1000.
C11_Witness ==
    /\ SizeDone
    /\ pr_in.signal.side = "yes"
    /\ pr_in.signal.implied_prob = 400
    /\ pr_in.signal.estimated_fair_prob = 600
    /\ pr_in.bankroll = 100000
    /\ pr_out.should_trade
    /\ pr_out.position_size_cents > 0
    /\ pr_out.net_ev_e4 > 0

\* C12: for every signal and every bankroll >= 0 the sized position lies
\* between 0 and max_position_usd, also for a negative f* and when
\* f_used * bankroll exceeds the cap.
C12_PositionCapped ==
    SizeDone =>
        /\ 0 <= pr_out.position_size_cents
        /\ pr_out.position_size_cents <= MAX_POSITION_CENTS
        /\ pr_out.optimal_fraction[1] <= 0 => pr_out.position_size_cents = 0

\* f_used * bankroll = 0.25 * 0.7312 * $100000 is far above the $500 cap.
C12_Witness ==
    /\ SizeDone
    /\ pr_in.signal.side = "yes"
    /\ pr_in.signal.implied_prob = 200
    /\ pr_in.signal.estimated_fair_prob = 800
    /\ pr_in.bankroll = 10000000
    /\ pr_out.position_size_cents = MAX_POSITION_CENTS

\* C13: the limit price is round(implied_prob * 100), mirrored to 100 minus
\* that for NO, then clamped to [1, 99].
C13_PriceRounded ==
    (pr_pc = "output" /\ pr_fn = "build_order" /\ pr_out # None) =>
        LET rounded == RoundScaled(pr_in.signal.implied_prob, PROB_ONE, 100)
            sided == IF pr_in.signal.side = "no" THEN 100 - rounded ELSE rounded
        IN pr_out[1].limit_price_cents = Max(1, Min(99, sided))

\* The spread of the book handed to scan_market, from its two bid sides.
ProbedSpread ==
    (IF pr_in.book.no = <<>> THEN 100 ELSE 100 - pr_in.book.no[1])
        - (IF pr_in.book.yes = <<>> THEN 0 ELSE pr_in.book.yes[1])

\* C14: scan_market emits a signal iff the fetch succeeds, one of the bid
\* sides is non-empty and spread_cents > threshold, with synthetic_yes_ask =
\* 100 - best_no_bid (100 without NO bids); a crossed book never emits and
\* every emitted signal is on the YES side.
C14_ScanMarketEmits ==
    (pr_pc = "output" /\ pr_fn = "scan_market") =>
        /\ pr_out # None <=>
              /\ pr_in.ok
              /\ pr_in.book.yes # <<>> \/ pr_in.book.no # <<>>
              /\ ProbedSpread > SPREAD_THRESHOLD_CENTS
        /\ ProbedSpread < 0 => pr_out = None
        /\ pr_out # None => (pr_out[1].side = "yes" /\ pr_out[1].source = "orderbook")

\* YES bid 30, NO bid 30: synthetic ask 70, spread 40.
C14_Witness ==
    /\ pr_pc = "output" /\ pr_fn = "scan_market"
    /\ pr_in.book = [yes |-> <<30>>, no |-> <<30>>]
    /\ pr_out # None
    /\ pr_out[1].side = "yes"
    /\ pr_out[1].estimated_fair_prob = 500

\* A probability in thousandths lies in [0, 1].
InUnit(x) == 0 <= x /\ x <= PROB_ONE

\* C24: every emitted signal has implied_prob, estimated_fair_prob and
\* confidence in [0, 1], for every admissible producer input.
C24_SignalFieldsInRange ==
    \A sig \in EmittedSignals :
        /\ InUnit(sig.implied_prob)
        /\ InUnit(sig.estimated_fair_prob)
        /\ sig.confidence[2] > 0
        /\ 0 <= sig.confidence[1]
        /\ sig.confidence[1] <= sig.confidence[2]

\* size(), lines 72-77: the win probability and the price taken from a
\* signal's side.
SizerProb(sig) ==
    IF sig.side = "yes" THEN sig.estimated_fair_prob ELSE PROB_ONE - sig.estimated_fair_prob

SizerPrice(sig) ==
    IF sig.side = "yes" THEN sig.implied_prob ELSE PROB_ONE - sig.implied_prob

\* ArbitrageAgent.scan, lines 145-156: the p and market_price handed to
\* kelly_criterion for a pair.
ArbWinProb(km, em) ==
    IF ExtProb(em) - KalshiProb(km) > 0 THEN ExtProb(em) ELSE PROB_ONE - ExtProb(em)

ArbMarketPrice(km, em) ==
    IF ExtProb(em) - KalshiProb(km) > 0 THEN KalshiProb(km) ELSE PROB_ONE - KalshiProb(km)

\* C28: for every signal the arbitrage scanner emits, the p and
\* market_price size() derives from the signal equal the p and market_price
\* the scanner used for the Kelly fraction that admitted it.
C28_ArbSizerAgree ==
    (pr_pc = "output" /\ pr_fn = "arbitrage" /\ pr_out # None) =>
        /\ SizerProb(pr_out[1]) = ArbWinProb(pr_in.km, pr_in.em)
        /\ SizerPrice(pr_out[1]) = ArbMarketPrice(pr_in.km, pr_in.em)

\* size() then build_order() returned an order.
OrderBuilt == pr_pc = "output" /\ pr_fn = "size_and_build" /\ pr_out # None

\* C29 as stated: the cost of every built order is at most its sized
\* position, which is at most max_position_usd (all in cents).
C29_CostWithinSizing ==
    OrderBuilt =>
        /\ pr_out[1].contracts * pr_out[1].limit_price_cents
              <= pr_out[1].kelly.position_size_cents
        /\ pr_out[1].kelly.position_size_cents <= MAX_POSITION_CENTS

\* C29, amended: the cost is within the sized position whenever the
\* position pays for at least one contract; below that the order is for
\* exactly one contract; the position never exceeds max_position_usd.
C29_CostWithinSizingOrOneContract ==
    OrderBuilt =>
        LET order == pr_out[1]
            position == order.kelly.position_size_cents
        IN /\ position <= MAX_POSITION_CENTS
           /\ order.contracts >= 1
           /\ position >= order.limit_price_cents =>
                 /\ order.contracts * order.limit_price_cents <= position
                 /\ (order.contracts + 1) * order.limit_price_cents > position
           /\ position < order.limit_price_cents => order.contracts = 1

\* Both cases: a position of $250.00 at 20 cents buys 1250 contracts.
C29_Witness ==
    /\ OrderBuilt
    /\ pr_in.bankroll = 200000
    /\ pr_out[1].limit_price_cents = 20
    /\ pr_out[1].kelly.position_size_cents > 20
    /\ pr_out[1].contracts * 20 <= pr_out[1].kelly.position_size_cents
    /\ pr_out[1].contracts > 1

\* NLPAgent.run has returned.
NlpRunDone == pr_pc = "output" /\ pr_fn = "nlp_run"

\* The LLM answered with text that decodes to a JSON array.
IsJsonArray(resp) == resp.kind = "json" /\ resp.type = "array"

\* C23: an answer that is not a valid JSON array yields no raw item, so a
\* run whose answers are all of that kind emits no signal.
C23_NonArrayDiscarded ==
    NlpRunDone =>
        /\ \A i \in 1..Len(pr_in.responses) :
              ~IsJsonArray(pr_in.responses[i]) => pr_out.raw[i] = <<>>
        /\ (\A i \in 1..Len(pr_in.responses) : ~IsJsonArray(pr_in.responses[i]))
              => pr_out.signals = <<>>

\* text contains keyword, letters compared without case.
ContainsNoCase(text, keyword) ==
    \E k \in 0..(Len(text) - Len(keyword)) :
        \A j \in 1..Len(keyword) : LowerChar(text[k + j]) = LowerChar(keyword[j])

\* The raw item passes the shift gate, its lookup works, and the market's
\* ticker or title contains its keyword.
NlpQualifies(item, market) ==
    /\ Abs(item.prob_shift) >= NLP_PROB_SHIFT_MIN
    /\ item.ticker_keyword \notin pr_in.failing
    /\ \/ ContainsNoCase(market.ticker, item.ticker_keyword)
       \/ ContainsNoCase(market.title, item.ticker_keyword)

\* (feed, item, open market) positions of the run.
NlpPositions ==
    UNION {UNION {{<<f, j, k>> : k \in 1..Len(pr_in.open_markets)} :
                     j \in 1..Len(pr_out.raw[f])} :
              f \in 1..Len(pr_out.raw)}

\* How many signals the claim asks for, and how many were emitted, with
\* the given ticker, side and edge.
NlpExpected(ticker, side, edge) ==
    Cardinality({pos \in NlpPositions :
                    /\ pr_in.open_markets[pos[3]].ticker = ticker
                    /\ Abs(pr_out.raw[pos[1]][pos[2]].prob_shift) = edge
                    /\ (pr_out.raw[pos[1]][pos[2]].prob_shift > 0) = (side = "yes")
                    /\ NlpQualifies(pr_out.raw[pos[1]][pos[2]], pr_in.open_markets[pos[3]])})

NlpEmitted(ticker, side, edge) ==
    Len(SelectSeq(pr_out.signals,
                  LAMBDA sig : sig.ticker = ticker /\ sig.side = side /\ sig.edge = edge))

\* C25: the pipeline emits exactly one signal per (raw item, open market)
\* such that |prob_shift| >= nlp_prob_shift_min and the market's ticker or
\* title contains the keyword, with side YES for a positive shift and NO
\* otherwise; items without a match or with a failed lookup add nothing
\* and do not stop the items and feeds after them.
C25_NlpEmitsPerMatch ==
    NlpRunDone =>
        \A ticker \in {pr_in.open_markets[k].ticker : k \in 1..Len(pr_in.open_markets)}
                         \cup {pr_out.signals[i].ticker : i \in 1..Len(pr_out.signals)} :
            \A side \in Sides :
                \A edge \in {Abs(pr_out.raw[pos[1]][pos[2]].prob_shift) : pos \in NlpPositions}
                               \cup {pr_out.signals[i].edge : i \in 1..Len(pr_out.signals)} :
                    NlpEmitted(ticker, side, edge) = NlpExpected(ticker, side, edge)

\* _match_markets has returned.
MatchDone == pr_pc = "output" /\ pr_fn = "match_markets"

\* C26: the pairs are, in exchange-market order, each exchange market that
\* has an external market sharing at least 3 tokens, with the first such
\* external market; the other exchange markets are in no pair.  The token
\* set of a title is taken as the claim words it: each word lowercased, its
\* trailing punctuation stripped, and dropped when what is left has
\* length <= 3.
C26_FirstMatchPairs ==
    LET ClaimTokens(title) ==
            LET words == Split(title)
                token(i) == StripRight(Lower(words[i]))
            IN {token(i) : i \in {j \in 1..Len(words) : Len(token(j)) > MIN_WORD_LEN}}
        ClaimMatches(i) ==
            {j \in 1..Len(pr_in.ems) :
                Cardinality(ClaimTokens(KalshiTitle(pr_in.kms[i]))
                                \cap ClaimTokens(ExternalTitle(pr_in.ems[j]))) >= MIN_OVERLAP}
        ClaimPaired ==
            SelectSeq([i \in 1..Len(pr_in.kms) |-> i], LAMBDA i : ClaimMatches(i) # {})
    IN MatchDone =>
           pr_out = [n \in 1..Len(ClaimPaired) |->
                        <<pr_in.kms[ClaimPaired[n]],
                          pr_in.ems[CHOOSE j \in ClaimMatches(ClaimPaired[n]) :
                                       \A l \in ClaimMatches(ClaimPaired[n]) : j <= l]>>]

\* ========================================================================
\* A. Exchange gateway  (src/kalshi_client/client.py)
\* ========================================================================

\* Response status codes the exchange can answer with.
Statuses == {200, 201, 204, 400, 404, 429, 500}

\* The Retry-After header: <<>> when absent, <<n>> for the text "n".
RetryAfterHeaders == {<<>>} \cup {<<n>> : n \in 0..MaxRetryAfter}

\* Response bodies (raw text).
BodyTexts == {"", "{}", "{\"message\": \"Not found\"}", "{\"order\": \"ord123\"}", "<html>"}

\* A 429 answer carries (or lacks) Retry-After; any other answer carries a body.
Responses ==
    [status : {HTTP_TOO_MANY}, retry_after : RetryAfterHeaders, text : {""}]
    \cup [status : Statuses \ {HTTP_TOO_MANY}, retry_after : {<<>>}, text : BodyTexts]

\* resp.json(): the decoded object as a set of <<key, value>> pairs, or a
\* decode failure for text that is not JSON.
JsonDecodable(text) == text \in {"{}", "{\"message\": \"Not found\"}", "{\"order\": \"ord123\"}"}

JsonDecode(text) ==
    CASE text = "{}" -> {}
      [] text = "{\"message\": \"Not found\"}" -> {<<"message", "Not found">>}
      [] text = "{\"order\": \"ord123\"}" -> {<<"order", "ord123">>}

\* body.get("message", resp.text[:200])
BodyMessage(body, text) ==
    IF \E kv \in body : kv[1] = "message"
    THEN (CHOOSE kv \in body : kv[1] = "message")[2]
    ELSE text

\* auth.get_auth_headers: a fresh timestamp and a fresh salted signature per
\* call; the headers are identified by the serial number of the signing call.
GetAuthHeadersStale(signs) == 1
GetAuthHeaders(signs) == signs + 1

\* `wait = int(retry_after) if retry_after else 2`
RetryWaitFixed(retry_after) == DEFAULT_WAIT
RetryWait(retry_after) == IF retry_after # <<>> THEN retry_after[1] ELSE DEFAULT_WAIT

\* `resp.status_code == 429 and _retries > 0`
ShouldRetryOffByOne(status, retries) == status = HTTP_TOO_MANY /\ retries >= 0
ShouldRetry(status, retries) == status = HTTP_TOO_MANY /\ retries > 0

\* The part of _request after the retry branch (lines 50-67).
RequestOutcomeNo204(resp) ==
    IF resp.status = HTTP_TOO_MANY
    THEN [kind |-> "KalshiRateLimitError", status |-> HTTP_TOO_MANY,
          message |-> "Rate limit exceeded", body |-> {}]
    ELSE IF resp.status >= HTTP_ERROR_MIN
    THEN LET body == IF JsonDecodable(resp.text) THEN JsonDecode(resp.text) ELSE {}
         IN [kind |-> "KalshiAPIError", status |-> resp.status,
             message |-> BodyMessage(body, resp.text), body |-> body]
    ELSE IF JsonDecodable(resp.text)
    THEN [kind |-> "return", status |-> resp.status, message |-> "", body |-> JsonDecode(resp.text)]
    ELSE [kind |-> "JSONDecodeError", status |-> resp.status, message |-> "", body |-> {}]

RequestOutcome(resp) ==
    IF resp.status = HTTP_TOO_MANY
    THEN [kind |-> "KalshiRateLimitError", status |-> HTTP_TOO_MANY,
          message |-> "Rate limit exceeded", body |-> {}]
    ELSE IF resp.status >= HTTP_ERROR_MIN
    THEN LET body == IF JsonDecodable(resp.text) THEN JsonDecode(resp.text) ELSE {}
         IN [kind |-> "KalshiAPIError", status |-> resp.status,
             message |-> BodyMessage(body, resp.text), body |-> body]
    ELSE IF resp.status = HTTP_NO_CONTENT
    THEN [kind |-> "return", status |-> resp.status, message |-> "", body |-> {}]
    ELSE IF JsonDecodable(resp.text)
    THEN [kind |-> "return", status |-> resp.status, message |-> "", body |-> JsonDecode(resp.text)]
    ELSE [kind |-> "JSONDecodeError", status |-> resp.status, message |-> "", body |-> {}]

\* A caller invokes _request with a retry budget (default 3; tests pass 0).
GwCall(budget) ==
    /\ gw_pc = "idle"
    /\ gw_pc' = "sign"
    /\ gw_budget' = budget
    /\ gw_retries' = budget
    /\ UNCHANGED <<gw_signs, gw_headers, gw_log, gw_resp, gw_resps, gw_wait, gw_result>>
    /\ UNCHANGED GwOthers

\* Line 34: headers = self.auth.get_auth_headers(...)
GwSign ==
    /\ gw_pc = "sign"
    /\ gw_signs' = gw_signs + 1
    /\ gw_headers' = GetAuthHeaders(gw_signs)
    /\ gw_log' = Append(gw_log, <<"sign", gw_signs + 1>>)
    /\ gw_pc' = "send"
    /\ UNCHANGED <<gw_budget, gw_retries, gw_resp, gw_resps, gw_wait, gw_result>>
    /\ UNCHANGED GwOthers

\* Lines 35-42: self.session.request(...) goes out with the headers.
GwSend ==
    /\ gw_pc = "send"
    /\ gw_log' = Append(gw_log, <<"send", gw_headers>>)
    /\ gw_pc' = "await"
    /\ UNCHANGED <<gw_budget, gw_retries, gw_signs, gw_headers, gw_resp, gw_resps, gw_wait, gw_result>>
    /\ UNCHANGED GwOthers

\* session.request raises (connection error, 30 s timeout): propagates.
GwTransportError ==
    /\ gw_pc = "await"
    /\ gw_log' = Append(gw_log, <<"raise", 0>>)
    /\ gw_result' = [kind |-> "TransportError", status |-> 0, message |-> "", body |-> {}]
    /\ gw_pc' = "done"
    /\ UNCHANGED <<gw_budget, gw_retries, gw_signs, gw_headers, gw_resp, gw_resps, gw_wait>>
    /\ UNCHANGED GwOthers

\* Lines 44-67: the response arrives and is dispatched.
GwResponse(resp) ==
    /\ gw_pc = "await"
    /\ gw_resp' = resp
    /\ gw_resps' = Append(gw_resps, resp)
    /\ IF ShouldRetry(resp.status, gw_retries)
       THEN /\ gw_wait' = RetryWait(resp.retry_after)
            /\ gw_log' = Append(gw_log, <<"recv", resp.status>>)
            /\ gw_pc' = "sleep"
            /\ UNCHANGED gw_result
       ELSE /\ gw_result' = RequestOutcome(resp)
            /\ gw_log' = Append(gw_log, <<"recv", resp.status>>)
            /\ gw_pc' = "done"
            /\ UNCHANGED gw_wait
    /\ UNCHANGED <<gw_budget, gw_retries, gw_signs, gw_headers>>
    /\ UNCHANGED GwOthers

\* Lines 47-48: time.sleep(wait), then the recursive call with _retries - 1.
GwSleep ==
    /\ gw_pc = "sleep"
    /\ gw_log' = Append(gw_log, <<"sleep", gw_wait>>)
    /\ gw_retries' = gw_retries - 1
    /\ gw_pc' = "sign"
    /\ UNCHANGED <<gw_budget, gw_signs, gw_headers, gw_resp, gw_resps, gw_wait, gw_result>>
    /\ UNCHANGED GwOthers

GwNext ==
    \/ \E budget \in 0..MaxBudget : GwCall(budget)
    \/ GwSign
    \/ GwSend
    \/ GwTransportError
    \/ \E resp \in Responses : GwResponse(resp)
    \/ GwSleep

GwInit == GwIdle /\ PrIdle /\ OrIdle /\ ScIdle

GatewaySpec == GwInit /\ [][GwNext]_vars

GatewayFairSpec == GatewaySpec /\ WF_vars(GwSign) /\ WF_vars(GwSend) /\ WF_vars(GwSleep)
                     /\ WF_vars(GwTransportError \/ \E resp \in Responses : GwResponse(resp))

\* ------------------------------------------------------------------------
\* Gateway properties
\* ------------------------------------------------------------------------
GwSleeps == SelectKind(gw_log, "sleep")
GwSends == SelectKind(gw_log, "send")
GwSigns == SelectKind(gw_log, "sign")

\* Position in the log of the i-th event of kind k.
NthPos(log, k, i) ==
    CHOOSE j \in 1..Len(log) :
        /\ log[j][1] = k
        /\ Cardinality({m \in 1..j : log[m][1] = k}) = i

GwAnswered == gw_pc = "done" /\ gw_result.kind # "TransportError"

\* The request saw k >= 1 answers 429 and then one that is not 429.
GwRetriedThenAnswered(k) ==
    /\ GwAnswered
    /\ k >= 1
    /\ Len(gw_resps) = k + 1
    /\ \A i \in 1..k : gw_resps[i].status = HTTP_TOO_MANY
    /\ gw_resps[k + 1].status # HTTP_TOO_MANY

\* C3: k consecutive 429 answers (1 <= k <= retries) followed by another
\* answer: exactly k sleeps, the i-th for the Retry-After of the i-th 429
\* (2 s when absent) and placed between the i-th answer and the next
\* attempt; the result is the one the final answer determines.
C3_SleepPerRateLimit ==
    \A k \in 1..(MaxBudget + 1) :
        (GwRetriedThenAnswered(k) /\ k <= gw_budget) =>
            /\ Len(GwSleeps) = k
            /\ \A i \in 1..k :
                  /\ GwSleeps[i][2] = (IF gw_resps[i].retry_after = <<>>
                                       THEN 2 ELSE gw_resps[i].retry_after[1])
                  /\ NthPos(gw_log, "recv", i) < NthPos(gw_log, "sleep", i)
                  /\ NthPos(gw_log, "sleep", i) < NthPos(gw_log, "send", i + 1)
            /\ LET last == gw_resps[k + 1]
               IN /\ gw_result.status = last.status
                  /\ (last.status >= 400) = (gw_result.kind = "KalshiAPIError")
                  /\ (last.status < 400 /\ last.status # 204 /\ JsonDecodable(last.text))
                        => gw_result = [kind |-> "return", status |-> last.status,
                                        message |-> "", body |-> JsonDecode(last.text)]

C3_Witness ==
    /\ GwRetriedThenAnswered(2)
    /\ gw_resps[1].retry_after = <<1>>
    /\ gw_resps[2].retry_after = <<>>
    /\ gw_resps[3].status = 200
    /\ gw_result.kind = "return"

GwAllRateLimited ==
    /\ GwAnswered
    /\ \A i \in 1..Len(gw_resps) : gw_resps[i].status = HTTP_TOO_MANY

GwBoundedState ==
    /\ Len(GwSends) <= gw_budget + 1
    /\ Len(GwSleeps) <= gw_budget
    /\ GwAllRateLimited =>
          /\ gw_result.kind = "KalshiRateLimitError"
          /\ Len(GwSends) = gw_budget + 1
          /\ Len(GwSleeps) = gw_budget
          /\ gw_budget = 3 => (Len(GwSends) = 4 /\ Len(GwSleeps) = 3)
          /\ gw_budget = 0 => (Len(GwSends) = 1 /\ Len(GwSleeps) = 0)

\* C4: the 429 retry is bounded: with only 429 answers a budget of 3 gives
\* exactly 4 attempts and 3 sleeps and then KalshiRateLimitError, a budget
\* of 0 one attempt and no sleep; and every started request terminates.
C4_BoundedRetry ==
    /\ []GwBoundedState
    /\ (gw_pc = "sign") ~> (gw_pc = "done")

C4_Witness ==
    /\ GwAllRateLimited
    /\ gw_budget = DEFAULT_RETRIES
    /\ Len(GwSends) = 4
    /\ gw_result.kind = "KalshiRateLimitError"

\* C5: an answer with status >= 400 other than 429 raises KalshiAPIError
\* carrying that status, with no sleep and no further attempt after it;
\* status 204 returns {}; any other status below 400 returns the decoded
\* JSON body.
C5_ErrorMapping ==
    /\ \A i \in 1..Len(gw_resps) :
          (gw_resps[i].status >= 400 /\ gw_resps[i].status # 429) =>
              /\ i = Len(gw_resps)
              /\ gw_pc = "done"
              /\ Len(GwSends) = i
              /\ Len(GwSleeps) = i - 1
              /\ gw_result.kind = "KalshiAPIError"
              /\ gw_result.status = gw_resps[i].status
    /\ (Len(gw_resps) = 1 /\ gw_resps[1].status >= 400 /\ gw_resps[1].status # 429)
          => GwSleeps = <<>>
    /\ (GwAnswered /\ gw_resp.status = 204)
          => (gw_result.kind = "return" /\ gw_result.body = {})
    /\ (GwAnswered /\ gw_resp.status < 400 /\ gw_resp.status # 204
            /\ JsonDecodable(gw_resp.text))
          => (gw_result.kind = "return" /\ gw_result.body = JsonDecode(gw_resp.text))

C5_Witness ==
    /\ GwAnswered
    /\ Len(gw_resps) = 1
    /\ gw_resp.status = 404
    /\ gw_result.kind = "KalshiAPIError"
    /\ gw_result.status = 404

\* C6: every HTTP attempt, retries included, is preceded by its own signing
\* call: the attempt carries the headers of the signing call just before
\* it, signing calls and attempts are equal in number, and no headers are
\* sent twice.
C6_FreshSignature ==
    /\ \A j \in 1..Len(gw_log) :
          gw_log[j][1] = "send" =>
              /\ j > 1
              /\ gw_log[j - 1] = <<"sign", gw_log[j][2]>>
    /\ \A i, j \in 1..Len(GwSends) : i # j => GwSends[i][2] # GwSends[j][2]
    /\ gw_pc \in {"await", "sleep", "done"} => Len(GwSigns) = Len(GwSends)
    /\ gw_signs = Len(GwSigns)

C6_Witness ==
    /\ gw_pc = "done"
    /\ Len(GwSends) >= 3
    /\ Len(GwSigns) = Len(GwSends)

\* ========================================================================
\* F. Orchestrator  (src/kalshi_alpha_suite/orchestrator.py) with the
\*    commit path of the risk agent (risk_execution_agent.py, lines 144-228)
\* ========================================================================
MaxCycles == 2
PAPER_BANKROLL_FACTOR == 10

\* Balances /portfolio/balance can report, in cents.
LiveBalances == {0, 40000, 200000}

RECURSIVE Flatten(_)
Flatten(ss) == IF ss = <<>> THEN <<>> ELSE Head(ss) \o Flatten(Tail(ss))

\* What the producers of one cycle can see.  Orderbook: the markets of the
\* page with the outcome of each get_orderbook.
ObPages ==
    { <<>>,
      <<[ticker |-> "T1", fetch |-> [ok |-> TRUE, book |-> [yes |-> <<30>>, no |-> <<30>>]]]>>,
      <<[ticker |-> "T2", fetch |-> [ok |-> TRUE, book |-> [yes |-> <<>>, no |-> <<55>>]]]>> }

\* News: the raw items of the LLM with the tickers resolved for each.
NlpFeeds ==
    { <<>>,
      <<[raw |-> [prob_shift |-> -200, confidence |-> 800], tickers |-> <<"T1">>]>>,
      <<[raw |-> [prob_shift |-> 490, confidence |-> 900],
         tickers |-> <<"T1", "T2">>]>> }

\* Arbitrage: the matched (exchange market, external market) pairs.
ArbPairs ==
    { <<>>,
      <<[km |-> [ticker |-> "T2", yes_price |-> Some(35), last_price |-> None],
         em |-> [outcomePrices |-> Some(650), yes_price |-> None, lastTradePrice |-> None]]>> }

\* The signal list a producer returns on the given input.
ObScanSignals(page, cfg) ==
    Flatten([i \in 1..Len(page) |->
                ScanMarket(page[i].ticker, page[i].fetch, cfg.spread_threshold_cents)])

NlpRunSignals(items, cfg) ==
    Flatten([i \in 1..Len(items) |->
                NlpItemSignals(items[i].raw, items[i].tickers, cfg.nlp_prob_shift_min)])

ArbScanSignals(pairs, cfg) ==
    Flatten([i \in 1..Len(pairs) |->
                ArbPairSignal(pairs[i].km, pairs[i].em, cfg.kelly_edge_min_pct)])

ProducerResults(p, cfg) ==
    CASE p = "orderbook" -> {ObScanSignals(page, cfg) : page \in ObPages}
      [] p = "nlp" -> {NlpRunSignals(items, cfg) : items \in NlpFeeds}
      [] p = "arbitrage" -> {ArbScanSignals(pairs, cfg) : pairs \in ArbPairs}

\* asyncio.gather(ob_task, nlp_task, arb_task, return_exceptions=False):
\* returns once every task has returned, raises as soon as one has raised.
GatherReturnsEarly(tasks) == \E p \in Producers : tasks[p].state = "done"
GatherReturns(tasks) == \A p \in Producers : tasks[p].state = "done"
GatherRaises(tasks) == \E p \in Producers : tasks[p].state = "failed"

\* all_signals: orderbook, then nlp, then arbitrage.
AllSignals(tasks) ==
    tasks["orderbook"].signals \o tasks["nlp"].signals \o tasks["arbitrage"].signals

\* main(): `except Exception: logger.error("Cycle failed")`, then the sleep.
AfterCycleFailureCrash == "crashed"
AfterCycleFailure == "sleeping"

\* execute(): `if order.paper` routes to the journal, else to place_order.
ExecuteRouteAlwaysLive(order) == "live"
ExecuteRoute(order) == IF order.paper THEN "paper" ELSE "live"

\* The JSONL record of _paper_execute (timestamp and rationale left out).
JournalRecord(order) ==
    [ticker |-> order.ticker,
     side |-> order.side,
     contracts |-> order.contracts,
     limit_price_cents |-> order.limit_price_cents,
     fill_price_cents |-> order.fill_price_cents,
     kelly_f_star_e4 |-> RoundScaled(order.kelly.optimal_fraction[1],
                                     order.kelly.optimal_fraction[2], 10000),
     position_cents |-> order.kelly.position_size_cents,
     net_ev_e4 |-> order.kelly.net_ev_e4,
     source |-> order.signal.source,
     paper |-> TRUE]

\* The body of the POST /portfolio/orders that place_order sends.
OrderBody(order) ==
    [ticker |-> order.ticker, action |-> "buy", side |-> order.side,
     type |-> "limit", count |-> order.contracts,
     yes_price |-> IF order.side = "yes" THEN Some(order.limit_price_cents) ELSE None,
     no_price |-> IF order.side = "yes" THEN None ELSE Some(order.limit_price_cents)]

\* Variant of process_signals that skips a signal whose ticker already has
\* an order in this call.
CurrentOrderDedup ==
    IF \E i \in 1..Len(or_orders) : or_orders[i].ticker = or_signals[or_idx].ticker
    THEN None
    ELSE BuildOrder(or_signals[or_idx], Size(or_signals[or_idx], or_bankroll, or_cfg), or_cfg)

\* The order process_signals builds for the signal it is looking at.
CurrentOrder ==
    BuildOrder(or_signals[or_idx], Size(or_signals[or_idx], or_bankroll, or_cfg), or_cfg)

\* load_config(): the defaults, or KELLY_FRACTION=1.0 in the environment.
OrConfigs ==
    {DefaultCfg(paper) : paper \in BOOLEAN}
        \cup {[DefaultCfg(paper) EXCEPT !.kelly_fraction_pct = 100] : paper \in BOOLEAN}

OrInit ==
    /\ or_pc = "starting"
    /\ or_cfg \in OrConfigs
    /\ or_bankroll = 0
    /\ or_cycle = 0
    /\ or_tasks = [p \in Producers |-> NoTask]
    /\ or_stale = 0
    /\ or_signals = <<>>
    /\ or_idx = 0
    /\ or_order = <<>>
    /\ or_orders = <<>>
    /\ or_journal = <<>>
    /\ or_posts = <<>>
    /\ or_passed = None
    /\ or_slept = FALSE
    /\ or_failed = FALSE
    /\ or_interrupted = FALSE
    /\ or_reads = <<>>
    /\ or_creds \in BOOLEAN

Init == GwIdle /\ PrIdle /\ ScIdle /\ OrInit

\* main(), paper mode: bankroll_usd = cfg.max_position_usd * 10.
StartPaper ==
    /\ or_pc = "starting"
    /\ or_cfg.paper_trading
    /\ or_bankroll' = or_cfg.max_position_cents * PAPER_BANKROLL_FACTOR
    /\ or_pc' = "ready"
    /\ UNCHANGED <<or_cfg, or_cycle, or_tasks, or_stale, or_signals, or_idx, or_order, or_orders,
                   or_journal, or_posts, or_passed, or_slept, or_failed, or_interrupted, or_reads>>
    /\ UNCHANGED or_creds
    /\ UNCHANGED OrOthers

\* _ensure_auth, called by every _request: KalshiAuth.from_config raises
\* ValueError when neither key is configured, so the client call raises.
ClientCallRaises == ~or_creds

\* The signal lists the producer can return.  Without credentials
\* get_markets raises in the orderbook scan and in the arbitrage scan;
\* resolve_tickers catches it and resolves no ticker.
ProducerCanReturn(p) ==
    IF ClientCallRaises
    THEN IF p = "nlp" THEN {<<>>} ELSE {}
    ELSE ProducerResults(p, or_cfg)

\* main(), live mode: bankroll_usd = get_balance()["balance"] / 100.
StartLive(balance) ==
    /\ or_pc = "starting"
    /\ ~or_cfg.paper_trading
    /\ ~ClientCallRaises
    /\ or_bankroll' = balance
    /\ or_reads' = Append(or_reads, Some(balance))
    /\ or_pc' = "ready"
    /\ UNCHANGED <<or_cfg, or_cycle, or_tasks, or_stale, or_signals, or_idx, or_order, or_orders,
                   or_journal, or_posts, or_passed, or_slept, or_failed, or_interrupted>>
    /\ UNCHANGED or_creds
    /\ UNCHANGED OrOthers

\* main(), live mode: get_balance() raises; nothing catches it before the loop.
StartLiveFails ==
    /\ or_pc = "starting"
    /\ ~or_cfg.paper_trading
    /\ or_pc' = "crashed"
    /\ or_reads' = Append(or_reads, None)
    /\ UNCHANGED <<or_cfg, or_bankroll, or_cycle, or_tasks, or_stale, or_signals, or_idx,
                   or_order, or_orders, or_journal, or_posts, or_passed, or_slept, or_failed,
                   or_interrupted>>
    /\ UNCHANGED or_creds
    /\ UNCHANGED OrOthers

\* Variant of the main loop that asks for the balance again before each
\* live cycle.
CycleStartRefreshes ==
    /\ or_pc = "ready"
    /\ or_cycle < MaxCycles
    /\ or_cycle' = or_cycle + 1
    /\ or_stale' = or_stale + Cardinality({p \in Producers : or_tasks[p].state = "running"})
    /\ or_tasks' = [p \in Producers |-> [state |-> "running", signals |-> <<>>]]
    /\ or_signals' = <<>>
    /\ or_idx' = 0
    /\ or_orders' = <<>>
    /\ or_passed' = None
    /\ or_slept' = FALSE
    /\ or_failed' = FALSE
    /\ or_pc' = "gather"
    /\ IF or_cfg.paper_trading
          THEN UNCHANGED <<or_bankroll, or_reads>>
          ELSE \E balance \in LiveBalances :
                  /\ or_bankroll' = balance
                  /\ or_reads' = Append(or_reads, Some(balance))
    /\ UNCHANGED <<or_order, or_cfg, or_journal, or_posts, or_interrupted>>
    /\ UNCHANGED or_creds
    /\ UNCHANGED OrOthers

\* run_cycle(), lines 59-61: the three producer tasks are created.  Tasks
\* of an abandoned cycle that have not finished keep running.
CycleStart ==
    /\ or_pc = "ready"
    /\ or_cycle < MaxCycles
    /\ or_cycle' = or_cycle + 1
    /\ or_stale' = or_stale + Cardinality({p \in Producers : or_tasks[p].state = "running"})
    /\ or_tasks' = [p \in Producers |-> [state |-> "running", signals |-> <<>>]]
    /\ or_signals' = <<>>
    /\ or_idx' = 0
    /\ or_orders' = <<>>
    /\ or_passed' = None
    /\ or_slept' = FALSE
    /\ or_failed' = FALSE
    /\ or_pc' = "gather"
    /\ UNCHANGED <<or_order, or_cfg, or_bankroll, or_journal, or_posts, or_interrupted, or_reads>>
    /\ UNCHANGED or_creds
    /\ UNCHANGED OrOthers

\* A producer task of the current cycle returns its signal list.
ProducerReturns(p) ==
    /\ or_pc \in {"gather", "process", "sleeping", "ready"}
    /\ or_tasks[p].state = "running"
    /\ \E signals \in ProducerCanReturn(p) :
          or_tasks' = [or_tasks EXCEPT ![p] = [state |-> "done", signals |-> signals]]
    /\ UNCHANGED <<or_pc, or_cfg, or_bankroll, or_cycle, or_stale, or_signals, or_idx,
                   or_order, or_orders, or_journal, or_posts, or_passed, or_slept, or_failed,
                   or_interrupted, or_reads>>
    /\ UNCHANGED or_creds
    /\ UNCHANGED OrOthers

\* A producer task of the current cycle raises (for instance get_markets
\* failing in scan_all_open_markets or in ArbitrageAgent.scan).
ProducerRaises(p) ==
    /\ or_pc \in {"gather", "process", "sleeping", "ready"}
    /\ or_tasks[p].state = "running"
    /\ or_tasks' = [or_tasks EXCEPT ![p] = [state |-> "failed", signals |-> <<>>]]
    /\ UNCHANGED <<or_pc, or_cfg, or_bankroll, or_cycle, or_stale, or_signals, or_idx,
                   or_order, or_orders, or_journal, or_posts, or_passed, or_slept, or_failed,
                   or_interrupted, or_reads>>
    /\ UNCHANGED or_creds
    /\ UNCHANGED OrOthers

\* A producer task left over from an abandoned cycle ends; nobody awaits it.
StaleTaskEnds ==
    /\ or_stale > 0
    /\ or_pc # "shutdown"
    /\ or_stale' = or_stale - 1
    /\ UNCHANGED <<or_pc, or_cfg, or_bankroll, or_cycle, or_tasks, or_signals, or_idx,
                   or_order, or_orders, or_journal, or_posts, or_passed, or_slept, or_failed,
                   or_interrupted, or_reads>>
    /\ UNCHANGED or_creds
    /\ UNCHANGED OrOthers

\* run_cycle(), lines 63-65: gather raises the producer's exception, run_cycle
\* propagates it and main() catches it.
GatherRaise ==
    /\ or_pc = "gather"
    /\ GatherRaises(or_tasks)
    /\ or_failed' = TRUE
    /\ or_pc' = AfterCycleFailure
    /\ UNCHANGED <<or_cfg, or_bankroll, or_cycle, or_tasks, or_stale, or_signals, or_idx,
                   or_order, or_orders, or_journal, or_posts, or_passed, or_slept, or_interrupted, or_reads>>
    /\ UNCHANGED or_creds
    /\ UNCHANGED OrOthers

\* run_cycle(), lines 63-88: gather returns the three lists; they are
\* concatenated and, unless empty, handed to process_signals.
GatherReturn ==
    /\ or_pc = "gather"
    /\ ~GatherRaises(or_tasks)
    /\ GatherReturns(or_tasks)
    /\ or_signals' = AllSignals(or_tasks)
    /\ IF AllSignals(or_tasks) = <<>>
       THEN /\ or_pc' = "sleeping"
            /\ UNCHANGED <<or_order, or_idx, or_passed>>
       ELSE /\ or_pc' = "process"
            /\ or_idx' = 1
            /\ or_passed' = Some(AllSignals(or_tasks))
    /\ or_orders' = <<>>
    /\ UNCHANGED <<or_order, or_cfg, or_bankroll, or_cycle, or_tasks, or_stale, or_journal, or_posts,
                   or_slept, or_failed, or_interrupted, or_reads>>
    /\ UNCHANGED or_creds
    /\ UNCHANGED OrOthers

\* process_signals, lines 214-218: size() and build_order() reject the signal.
ProcessSkip ==
    /\ or_pc = "process"
    /\ or_idx <= Len(or_signals)
    /\ CurrentOrder = None
    /\ or_idx' = or_idx + 1
    /\ UNCHANGED <<or_pc, or_cfg, or_bankroll, or_cycle, or_tasks, or_stale, or_signals,
                   or_order, or_orders, or_journal, or_posts, or_passed, or_slept,
                   or_failed, or_interrupted, or_reads>>
    /\ UNCHANGED or_creds
    /\ UNCHANGED OrOthers

\* process_signals, lines 214-220: size() and build_order() return an order,
\* which is handed to execute().
ProcessBuild ==
    /\ or_pc = "process"
    /\ or_idx <= Len(or_signals)
    /\ CurrentOrder # None
    /\ or_order' = CurrentOrder
    /\ or_pc' = "execute"
    /\ UNCHANGED <<or_cfg, or_bankroll, or_cycle, or_tasks, or_stale, or_signals, or_idx,
                   or_orders, or_journal, or_posts, or_passed, or_slept, or_failed,
                   or_interrupted, or_reads>>
    /\ UNCHANGED or_creds
    /\ UNCHANGED OrOthers

\* Variant of _paper_execute that opens the journal with mode "w": the file
\* is truncated before the line is written.
PaperCommitTruncates ==
    /\ or_pc = "execute"
    /\ ExecuteRoute(or_order[1]) = "paper"
    /\ LET filled == [or_order[1] EXCEPT
                         !.fill_price_cents = Some(or_order[1].limit_price_cents)]
       IN /\ or_journal' = <<JournalRecord(filled)>>
          /\ or_orders' = Append(or_orders, filled)
    /\ or_idx' = or_idx + 1
    /\ or_order' = None
    /\ or_pc' = "process"
    /\ UNCHANGED <<or_cfg, or_bankroll, or_cycle, or_tasks, or_stale, or_signals,
                   or_posts, or_passed, or_slept, or_failed, or_interrupted, or_reads>>
    /\ UNCHANGED or_creds
    /\ UNCHANGED OrOthers

\* _paper_execute: the fill is simulated at the limit and one line is
\* appended to the journal.
PaperCommit ==
    /\ or_pc = "execute"
    /\ ExecuteRoute(or_order[1]) = "paper"
    /\ LET filled == [or_order[1] EXCEPT
                         !.fill_price_cents = Some(or_order[1].limit_price_cents)]
       IN /\ or_journal' = Append(or_journal, JournalRecord(filled))
          /\ or_orders' = Append(or_orders, filled)
    /\ or_idx' = or_idx + 1
    /\ or_order' = None
    /\ or_pc' = "process"
    /\ UNCHANGED <<or_cfg, or_bankroll, or_cycle, or_tasks, or_stale, or_signals,
                   or_posts, or_passed, or_slept, or_failed, or_interrupted, or_reads>>
    /\ UNCHANGED or_creds
    /\ UNCHANGED OrOthers

\* _paper_execute: open() or write() raises OSError; it leaves
\* process_signals and run_cycle and is caught in main().
PaperCommitFails ==
    /\ or_pc = "execute"
    /\ ExecuteRoute(or_order[1]) = "paper"
    /\ or_failed' = TRUE
    /\ or_order' = None
    /\ or_pc' = AfterCycleFailure
    /\ UNCHANGED <<or_cfg, or_bankroll, or_cycle, or_tasks, or_stale, or_signals, or_idx,
                   or_orders, or_journal, or_posts, or_passed, or_slept, or_interrupted, or_reads>>
    /\ UNCHANGED or_creds
    /\ UNCHANGED OrOthers

\* Variant of _live_execute without the try/except: a rejected place_order
\* leaves process_signals and ends the cycle.
LiveCommitRaises(accepted) ==
    /\ or_pc = "execute"
    /\ ExecuteRoute(or_order[1]) = "live"
    /\ or_posts' = Append(or_posts, OrderBody(or_order[1]))
    /\ or_orders' = IF accepted
                       THEN Append(or_orders,
                                   [or_order[1] EXCEPT !.order_id = Some(Len(or_posts) + 1)])
                       ELSE or_orders
    /\ or_idx' = IF accepted THEN or_idx + 1 ELSE or_idx
    /\ or_failed' = (or_failed \/ ~accepted)
    /\ or_order' = None
    /\ or_pc' = IF accepted THEN "process" ELSE AfterCycleFailure
    /\ UNCHANGED <<or_cfg, or_bankroll, or_cycle, or_tasks, or_stale, or_signals,
                   or_journal, or_passed, or_slept, or_interrupted, or_reads>>
    /\ UNCHANGED or_creds
    /\ UNCHANGED OrOthers

\* _live_execute: place_order is sent; on success the order id is kept, on
\* failure the exception is logged and the order stays without an id.
LiveCommit(accepted) ==
    /\ or_pc = "execute"
    /\ ExecuteRoute(or_order[1]) = "live"
    /\ or_posts' = Append(or_posts, OrderBody(or_order[1]))
    /\ or_orders' = Append(or_orders,
                           [or_order[1] EXCEPT
                               !.order_id = IF accepted THEN Some(Len(or_posts) + 1) ELSE None])
    /\ or_idx' = or_idx + 1
    /\ or_order' = None
    /\ or_pc' = "process"
    /\ UNCHANGED <<or_cfg, or_bankroll, or_cycle, or_tasks, or_stale, or_signals,
                   or_journal, or_passed, or_slept, or_failed, or_interrupted, or_reads>>
    /\ UNCHANGED or_creds
    /\ UNCHANGED OrOthers

\* process_signals returns its orders; run_cycle logs and returns.
ProcessReturn ==
    /\ or_pc = "process"
    /\ or_idx > Len(or_signals)
    /\ or_pc' = "sleeping"
    /\ UNCHANGED <<or_cfg, or_bankroll, or_cycle, or_tasks, or_stale, or_signals, or_idx,
                   or_order, or_orders, or_journal, or_posts, or_passed, or_slept, or_failed,
                   or_interrupted, or_reads>>
    /\ UNCHANGED or_creds
    /\ UNCHANGED OrOthers

\* main(): `await asyncio.sleep(60)` has elapsed.
SleepDone ==
    /\ or_pc = "sleeping"
    /\ or_slept' = TRUE
    /\ or_pc' = "ready"
    /\ UNCHANGED <<or_cfg, or_bankroll, or_cycle, or_tasks, or_stale, or_signals, or_idx,
                   or_order, or_orders, or_journal, or_posts, or_passed, or_failed, or_interrupted, or_reads>>
    /\ UNCHANGED or_creds
    /\ UNCHANGED OrOthers

\* KeyboardInterrupt / CancelledError at any await of the loop.
Interrupt ==
    /\ or_pc \in {"ready", "gather", "process", "execute", "sleeping"}
    /\ or_interrupted' = TRUE
    /\ or_pc' = "shutdown"
    /\ UNCHANGED <<or_cfg, or_bankroll, or_cycle, or_tasks, or_stale, or_signals, or_idx,
                   or_order, or_orders, or_journal, or_posts, or_passed, or_slept, or_failed, or_reads>>
    /\ UNCHANGED or_creds
    /\ UNCHANGED OrOthers

Next ==
    \/ StartPaper
    \/ \E balance \in LiveBalances : StartLive(balance)
    \/ StartLiveFails
    \/ CycleStart
    \/ \E p \in Producers : ProducerReturns(p)
    \/ \E p \in Producers : ProducerRaises(p)
    \/ StaleTaskEnds
    \/ GatherRaise
    \/ GatherReturn
    \/ ProcessSkip
    \/ ProcessBuild
    \/ PaperCommit
    \/ PaperCommitFails
    \/ \E accepted \in BOOLEAN : LiveCommit(accepted)
    \/ ProcessReturn
    \/ SleepDone
    \/ Interrupt

Spec == Init /\ [][Next]_vars

\* main(), lines 119-128: the event loop resumes the main coroutine when
\* asyncio.sleep(60) has elapsed, and `while True` then starts the next cycle.
FairSpec == Spec /\ WF_vars(SleepDone) /\ WF_vars(CycleStart)

\* ------------------------------------------------------------------------
\* Orchestrator properties
\* ------------------------------------------------------------------------

\* The orders process_signals has built so far in this call.
GatePassed ==
    {j \in 1..(or_idx - 1) :
        BuildOrder(or_signals[j], Size(or_signals[j], or_bankroll, or_cfg), or_cfg) # None}

\* C1: in paper mode no POST /portfolio/orders is ever sent; every order
\* that passed the gate is committed by one appended journal line only.
C1_PaperNeverPosts ==
    or_cfg.paper_trading =>
        /\ or_posts = <<>>
        /\ Len(or_journal) >= Len(or_orders)
        /\ \A i \in 1..Len(or_orders) :
              /\ or_orders[i].paper
              /\ or_orders[i].order_id = None
              /\ or_journal[Len(or_journal) - Len(or_orders) + i] = JournalRecord(or_orders[i])
        /\ or_pc \in {"process", "execute"} => Len(or_orders) = Cardinality(GatePassed)

C1_Witness ==
    /\ or_cfg.paper_trading
    /\ or_cycle = 2
    /\ Len(or_orders) = 2
    /\ Len(or_journal) = 4
    /\ or_posts = <<>>

\* One producer has raised and the two others have returned, with signals.
OneProducerFailed(p) ==
    /\ or_tasks[p].state = "failed"
    /\ \A q \in Producers \ {p} : or_tasks[q].state = "done"
    /\ AllSignals(or_tasks) # <<>>

\* C7: when one producer raises, its list counts as empty and the signals
\* of the two others are concatenated and passed to process_signals in the
\* same cycle.
C7_ProducerIsolation ==
    [][\A p \in Producers :
          (or_pc = "gather" /\ OneProducerFailed(p) /\ or_pc' \notin {"gather", "shutdown"})
              => (or_pc' = "process" /\ or_passed' = Some(AllSignals(or_tasks)))]_vars

\* C8: an order is committed (journal line or POST) only once the three
\* producers of the cycle have returned, and a cycle starts only when the
\* previous one has left process_signals and the sleep after it has elapsed.
C8_PhasesSequential ==
    [][/\ (or_journal' # or_journal \/ or_posts' # or_posts)
            => \A p \in Producers : or_tasks[p].state = "done"
       /\ or_cycle' # or_cycle
            => /\ or_pc = "ready"
               /\ or_cycle >= 1 => or_slept
               /\ or_passed # None => (or_idx > Len(or_signals) \/ or_failed)]_vars

C8_Witness ==
    /\ or_cycle = 2
    /\ or_pc = "process"
    /\ Len(or_orders) >= 1
    /\ Len(or_journal) + Len(or_posts) > Len(or_orders)

\* C9: once the loop runs, a cycle that raised does not end the process:
\* the failure leads to the sleep and then to the next cycle, and only an
\* interrupt reaches shutdown.
C9_CycleLiveness ==
    /\ [](or_cycle >= 1 => or_pc # "crashed")
    /\ [](or_pc = "shutdown" => or_interrupted)
    /\ [](or_failed => or_pc \in {"sleeping", "ready", "shutdown"})
    /\ \A n \in 1..(MaxCycles - 1) :
          (or_cycle = n /\ or_failed) ~> (or_cycle = n + 1 \/ or_pc = "shutdown")

C9_Witness ==
    /\ or_cycle = 2
    /\ or_stale > 0
    /\ or_pc = "gather"
    /\ ~or_interrupted

\* The last order of the batch, when process_signals has just committed one.
LastOrder == or_orders[Len(or_orders)]

\* C17: in live mode a rejected place_order does not leave process_signals:
\* the order is kept with order_id = None, the loop goes on with the next
\* signal, and every signal of the batch that passes the gate is submitted,
\* whatever happened to the submissions before it.
C17_LiveFailureIsolated ==
    /\ [](~or_cfg.paper_trading /\ or_pc \in {"process", "execute"} =>
             /\ ~or_failed
             /\ Len(or_orders) = Cardinality(GatePassed)
             /\ Len(or_posts) >= Len(or_orders)
             /\ \A i \in 1..Len(or_orders) :
                   /\ ~or_orders[i].paper
                   /\ or_posts[Len(or_posts) - Len(or_orders) + i]
                        = OrderBody(or_orders[i]))
    /\ [][(or_pc = "execute" /\ or_pc' # "execute" /\ ~or_cfg.paper_trading /\ ~or_interrupted') =>
             /\ or_pc' = "process"
             /\ ~or_failed'
             /\ or_idx' = or_idx + 1
             /\ Len(or_orders') = Len(or_orders) + 1
             /\ Len(or_posts') = Len(or_posts) + 1
             /\ LastOrder' \in {[or_order[1] EXCEPT !.order_id = None],
                                [or_order[1] EXCEPT !.order_id = Some(Len(or_posts'))]}]_vars

\* A live batch whose first submission was rejected and whose second one
\* was accepted.
C17_Witness ==
    /\ ~or_cfg.paper_trading
    /\ ~or_failed
    /\ Len(or_orders) >= 2
    /\ or_orders[1].order_id = None
    /\ or_orders[2].order_id # None
    /\ Len(or_posts) >= 2

\* C18: the paper journal only grows by appending: a step that commits a
\* paper order appends exactly one record, filled at the limit and marked
\* paper; every other step leaves the journal as it is; the records written
\* before stay a prefix.
C18_JournalAppendOnly ==
    [][/\ Len(or_journal') >= Len(or_journal)
       /\ SubSeq(or_journal', 1, Len(or_journal)) = or_journal
       /\ (or_pc = "execute" /\ or_cfg.paper_trading /\ or_pc' = "process") =>
             /\ Len(or_orders') = Len(or_orders) + 1
             /\ LastOrder'.paper
             /\ LastOrder'.fill_price_cents = Some(LastOrder'.limit_price_cents)
             /\ or_journal' = Append(or_journal, JournalRecord(LastOrder'))
             /\ or_journal'[Len(or_journal')].paper
             /\ or_journal'[Len(or_journal')].fill_price_cents
                  = Some(or_journal'[Len(or_journal')].limit_price_cents)
       /\ ~(or_pc = "execute" /\ or_cfg.paper_trading /\ or_pc' = "process") =>
             /\ or_journal' = or_journal
             /\ or_cfg.paper_trading => Len(or_orders') <= Len(or_orders)]_vars

\* Three paper orders over two cycles, three journal lines.
C18_Witness ==
    /\ or_cfg.paper_trading
    /\ or_cycle = 2
    /\ or_pc = "sleeping"
    /\ Len(or_orders) = 1
    /\ Len(or_journal) = 3

\* C19: the bankroll is set once, before the first cycle: in paper mode it
\* is ten times the position cap and the balance is never asked for; in
\* live mode the balance is asked for exactly once and the bankroll is that
\* answer.  No cycle and no committed order changes it.
C19_BankrollFixed ==
    /\ [](or_pc # "starting" =>
             IF or_cfg.paper_trading
               THEN /\ or_reads = <<>>
                    /\ or_bankroll = or_cfg.max_position_cents * 10
               ELSE /\ Len(or_reads) = 1
                    /\ or_pc # "crashed" => or_reads[1] = Some(or_bankroll))
    /\ [](or_pc = "starting" => or_reads = <<>>)
    /\ [][or_pc # "starting" => (or_bankroll' = or_bankroll /\ or_reads' = or_reads)]_vars

\* Second live cycle, after an order was committed in the first one: still
\* the one balance read and the bankroll it gave.
C19_Witness ==
    /\ ~or_cfg.paper_trading
    /\ or_cycle = 2
    /\ or_pc = "execute"
    /\ Len(or_posts) >= 1
    /\ or_reads = <<Some(200000)>>
    /\ or_bankroll = 200000

\* C22: missing credentials are fatal at startup, in paper mode as in live
\* mode: when no private key is configured the orchestrator never enters
\* the cycle loop, so no cycle is started and no producer task is created.
C22_MissingCredentialsFatal ==
    ~or_creds =>
        /\ or_cycle = 0
        /\ \A p \in Producers : or_tasks[p] = NoTask

\* ========================================================================
\* G. Paginated orderbook fan-out
\*    (src/kalshi_alpha_suite/agents/orderbook_agent.py, lines 112-145)
\* ========================================================================
MaxMarkets == 3
ScPageSize == 2
SCAN_LIMIT_DEFAULT == 200
BATCH_MAX == 100

\* Markets the exchange can list: the status of its answers to successive
\* GET /markets/{ticker}/orderbook requests (the last one repeats), the
\* book of a 200 answer, and whether _parse_orderbook raises on the payload.
MarketPool ==
    { [ticker |-> "T1", parse_raises |-> FALSE, answers |-> <<200>>,
       book |-> [yes |-> <<30>>, no |-> <<30>>]],
      [ticker |-> "T2", parse_raises |-> FALSE, answers |-> <<500>>,
       book |-> [yes |-> <<>>, no |-> <<>>]],
      [ticker |-> "T3", parse_raises |-> TRUE, answers |-> <<200>>,
       book |-> [yes |-> <<>>, no |-> <<>>]],
      [ticker |-> "T4", parse_raises |-> FALSE, answers |-> <<200>>,
       book |-> [yes |-> <<>>, no |-> <<55>>]],
      [ticker |-> "T5", parse_raises |-> FALSE, answers |-> <<200>>,
       book |-> [yes |-> <<49>>, no |-> <<50>>]],
      [ticker |-> "T6", parse_raises |-> FALSE, answers |-> <<HTTP_TOO_MANY, 200>>,
       book |-> [yes |-> <<20>>, no |-> <<20>>]] }

\* KalshiClient._request of the suite: one request; raise_for_status raises
\* on a status >= 400 and nothing is sent again.  sent: the statuses of the
\* answers received.
SuiteRequest(answers) ==
    [sent |-> <<answers[1]>>, ok |-> answers[1] < HTTP_ERROR_MIN]

\* scan_market, lines 70-74: get_orderbook inside try/except.
FetchOrderbook(market) ==
    LET r == SuiteRequest(market.answers)
    IN [ok |-> r.ok,
        book |-> IF r.ok THEN market.book ELSE [yes |-> <<>>, no |-> <<>>]]

SeqsUpTo(S, n) == UNION {[1..k -> S] : k \in 0..n}

\* The open markets in the order the exchange lists them; trailing: the
\* last page still carries a cursor (the page after it is empty);
\* honours_limit: a page never holds more markets than the request's limit.
ServedSets ==
    [markets : SeqsUpTo(MarketPool, MaxMarkets), trailing : BOOLEAN,
     honours_limit : BOOLEAN]

ScanLimits == {0, 1, 3, SCAN_LIMIT_DEFAULT}

\* GET /markets?status=open&limit=batch&cursor=...: the next markets of the
\* list, at most batch and at most the exchange's page size, and a cursor
\* unless the list is exhausted.
ServePage(served, cursor, batch) ==
    LET size == IF served.honours_limit THEN Min(batch, ScPageSize) ELSE ScPageSize
        n == Max(0, Min(size, Len(served.markets) - cursor))
        end == cursor + n
    IN [markets |-> SubSeq(served.markets, cursor + 1, end),
        cursor |-> IF end < Len(served.markets) \/ (served.trailing /\ n > 0)
                   THEN end ELSE 0]

\* batch_size of line 123.
BatchSizeFixed(limit, fetched) == BATCH_MAX
BatchSize(limit, fetched) == Min(BATCH_MAX, limit - fetched)

\* `cursor=cursor` of the get_markets call (line 125).
RequestCursorFirst(cursor) == 0
RequestCursor(cursor) == cursor

\* One scan_market task: a failed fetch is caught and gives None, a parse
\* error leaves the coroutine as an exception.
TaskResult(market) ==
    IF FetchOrderbook(market).ok /\ market.parse_raises THEN <<"exception">>
    ELSE LET r == ScanMarket(market.ticker, FetchOrderbook(market), SPREAD_THRESHOLD_CENTS)
         IN IF r = None THEN <<"none">> ELSE <<"signal", r[1]>>

\* gather(*tasks, return_exceptions=True) and the loop of lines 133-137:
\* the Signal results in task order; exceptions are logged.
GatherPageAborts(results) ==
    IF \E i \in 1..Len(results) : results[i][1] = "exception"
    THEN [kind |-> "raise", signals |-> <<>>]
    ELSE [kind |-> "return",
          signals |-> Flatten([i \in 1..Len(results) |->
                                  IF results[i][1] = "signal" THEN <<results[i][2]>> ELSE <<>>])]

GatherPage(results) ==
    [kind |-> "return",
     signals |-> Flatten([i \in 1..Len(results) |->
                             IF results[i][1] = "signal" THEN <<results[i][2]>> ELSE <<>>])]

ScInit ==
    /\ GwIdle /\ PrIdle /\ OrIdle
    /\ sc_pc = "start"
    /\ sc_served \in ServedSets
    /\ sc_limit \in ScanLimits
    /\ sc_cursor = 0
    /\ sc_fetched = 0
    /\ sc_resp = NoPage
    /\ sc_tasks = <<>>
    /\ sc_signals = <<>>
    /\ sc_scanned = <<>>
    /\ sc_listfail = FALSE
    /\ sc_result = NoScan
    /\ sc_gets = <<>>
    /\ sc_reqs = <<>>

\* Lines 118-122: the locals are set and the loop condition is tested.
ScCall ==
    /\ sc_pc = "start"
    /\ IF sc_fetched < sc_limit
       THEN /\ sc_pc' = "list"
            /\ UNCHANGED sc_result
       ELSE /\ sc_pc' = "done"
            /\ sc_result' = [kind |-> "return", signals |-> sc_signals]
    /\ UNCHANGED <<sc_served, sc_limit, sc_cursor, sc_fetched, sc_resp, sc_tasks,
                   sc_signals, sc_scanned, sc_listfail, sc_gets, sc_reqs>>
    /\ UNCHANGED ScOthers

\* Lines 123-131: get_markets answers; an empty page ends the scan, else
\* one scan_market task per market is created.
ScListReturns ==
    /\ sc_pc = "list"
    /\ sc_reqs' = Append(sc_reqs, [limit |-> BatchSize(sc_limit, sc_fetched),
                                    fetched |-> sc_fetched])
    /\ LET resp == ServePage(sc_served, RequestCursor(sc_cursor),
                             BatchSize(sc_limit, sc_fetched))
       IN /\ sc_resp' = resp
          /\ IF resp.markets = <<>>
             THEN /\ sc_pc' = "done"
                  /\ sc_result' = [kind |-> "return", signals |-> sc_signals]
                  /\ UNCHANGED <<sc_tasks, sc_scanned>>
             ELSE /\ sc_pc' = "fanout"
                  /\ sc_tasks' = [i \in 1..Len(resp.markets) |-> <<>>]
                  /\ sc_scanned' = sc_scanned \o [i \in 1..Len(resp.markets) |->
                                                     resp.markets[i].ticker]
                  /\ UNCHANGED sc_result
    /\ UNCHANGED <<sc_served, sc_limit, sc_cursor, sc_fetched, sc_signals, sc_listfail, sc_gets>>
    /\ UNCHANGED ScOthers

\* Lines 124-126: get_markets raises (raise_for_status, transport error);
\* nothing in scan_all_open_markets catches it.
ScListFails ==
    /\ sc_pc = "list"
    /\ sc_listfail' = TRUE
    /\ sc_reqs' = Append(sc_reqs, [limit |-> BatchSize(sc_limit, sc_fetched),
                                    fetched |-> sc_fetched])
    /\ sc_result' = [kind |-> "raise", signals |-> <<>>]
    /\ sc_pc' = "done"
    /\ UNCHANGED <<sc_served, sc_limit, sc_cursor, sc_fetched, sc_resp, sc_tasks,
                   sc_signals, sc_scanned, sc_gets>>
    /\ UNCHANGED ScOthers

\* One of the concurrent scan_market tasks of the page finishes.
ScTaskCompletes(i) ==
    /\ sc_pc = "fanout"
    /\ i \in 1..Len(sc_tasks)
    /\ sc_tasks[i] = <<>>
    /\ sc_tasks' = [sc_tasks EXCEPT ![i] = TaskResult(sc_resp.markets[i])]
    /\ LET sent == SuiteRequest(sc_resp.markets[i].answers).sent
       IN sc_gets' = sc_gets \o [k \in 1..Len(sent) |-> <<sc_resp.markets[i].ticker, sent[k]>>]
    /\ UNCHANGED <<sc_pc, sc_served, sc_limit, sc_cursor, sc_fetched, sc_resp,
                   sc_signals, sc_scanned, sc_listfail, sc_result, sc_reqs>>
    /\ UNCHANGED ScOthers

\* Lines 132-142 and 122: gather returns, the signals are collected, the
\* cursor and the count advance and the loop goes on or ends.
ScGather ==
    /\ sc_pc = "fanout"
    /\ \A i \in 1..Len(sc_tasks) : sc_tasks[i] # <<>>
    /\ LET outcome == GatherPage(sc_tasks)
           signals == sc_signals \o outcome.signals
           fetched == sc_fetched + Len(sc_resp.markets)
       IN IF outcome.kind = "raise"
          THEN /\ sc_result' = [kind |-> "raise", signals |-> <<>>]
               /\ sc_pc' = "done"
               /\ UNCHANGED <<sc_signals, sc_cursor, sc_fetched>>
          ELSE /\ sc_signals' = signals
               /\ sc_cursor' = sc_resp.cursor
               /\ sc_fetched' = fetched
               /\ IF sc_resp.cursor = 0 \/ fetched >= sc_limit
                  THEN /\ sc_pc' = "done"
                       /\ sc_result' = [kind |-> "return", signals |-> signals]
                  ELSE /\ sc_pc' = "list"
                       /\ UNCHANGED sc_result
    /\ UNCHANGED <<sc_served, sc_limit, sc_resp, sc_tasks, sc_scanned, sc_listfail, sc_gets, sc_reqs>>
    /\ UNCHANGED ScOthers

ScNext ==
    \/ ScCall
    \/ ScListReturns
    \/ ScListFails
    \/ \E i \in 1..ScPageSize : ScTaskCompletes(i)
    \/ ScGather

ScanSpec == ScInit /\ [][ScNext]_vars

\* Every await of the scan is an HTTP call with the client's timeout, and
\* the event loop runs each ready coroutine: a step that can be taken is
\* taken.
ScanFairSpec == ScanSpec /\ WF_vars(ScNext)

\* ------------------------------------------------------------------------
\* Fan-out properties
\* ------------------------------------------------------------------------
Tickers(items) == [i \in 1..Len(items) |-> items[i].ticker]

Distinct(seq) == \A i, j \in 1..Len(seq) : i # j => seq[i] # seq[j]

\* The market's orderbook fetch succeeds and shows a spread above the threshold.
WideSpread(market) ==
    /\ FetchOrderbook(market).ok
    /\ ~market.parse_raises
    /\ market.book.yes # <<>> \/ market.book.no # <<>>
    /\ (IF market.book.no = <<>> THEN 100 ELSE 100 - market.book.no[1])
          - (IF market.book.yes = <<>> THEN 0 ELSE market.book.yes[1])
          > SPREAD_THRESHOLD_CENTS

\* C15: failed orderbook fetches of a page do not abort the batch: in any
\* order of completion the scan raises only when a market-list request
\* failed, and otherwise returns, in market order, the signal of every
\* listed market (up to the limit, so on every page) whose fetch succeeded
\* and whose spread exceeds the threshold.
C15_FanoutIsolation ==
    /\ sc_result.kind = "raise" => sc_listfail
    /\ sc_pc = "fanout" => sc_result = NoScan
    /\ sc_result.kind = "return" =>
          /\ Len(sc_scanned) >= Min(Len(sc_served.markets), sc_limit)
          /\ sc_served.honours_limit =>
                Len(sc_scanned) = Min(Len(sc_served.markets), sc_limit)
          /\ sc_scanned = Tickers(SubSeq(sc_served.markets, 1, Len(sc_scanned)))
          /\ Tickers(sc_result.signals)
                = Tickers(SelectSeq(SubSeq(sc_served.markets, 1, Len(sc_scanned)), WideSpread))

\* T1 (signal), T2 (fetch fails), then on the next page T3 (parse error).
C15_Witness ==
    /\ sc_pc = "done"
    /\ sc_result.kind = "return"
    /\ sc_scanned = <<"T1", "T2", "T3">>
    /\ Tickers(sc_result.signals) = <<"T1">>

\* C16: when the listed markets are pairwise distinct (disjoint pages), no
\* ticker is scanned twice and no two returned signals share a ticker.
C16_NoDuplicateTicker ==
    Distinct(Tickers(sc_served.markets)) =>
        /\ Distinct(sc_scanned)
        /\ Distinct(Tickers(sc_signals))
        /\ Distinct(Tickers(sc_result.signals))

C16_Witness ==
    /\ sc_pc = "done"
    /\ sc_result.kind = "return"
    /\ sc_scanned = <<"T1", "T5", "T4">>
    /\ Tickers(sc_result.signals) = <<"T1", "T4">>

\* C20: a market-list request that fails in the middle of the scan makes
\* the scanner return the signals collected so far instead of raising.
C20_PartialResults ==
    (sc_pc = "done" /\ sc_listfail) =>
        sc_result = [kind |-> "return", signals |-> sc_signals]


\* The status of the k-th answer of the exchange to a GET of the market's
\* orderbook.
AnswerStatus(market, k) == market.answers[Min(k, Len(market.answers))]

\* The number of orderbook requests sent for the ticker so far.
GetsFor(ticker) == Cardinality({k \in 1..Len(sc_gets) : sc_gets[k][1] = ticker})

\* C21: an orderbook fetch of the fan-out answered with 429 is sent again
\* before the market is dropped: a finished task whose first answer was 429
\* has sent at least two requests, and it dropped the market only if every
\* answer within the retry budget was an error.
C21_RateLimitRetried ==
    \A i \in 1..ScPageSize :
        (/\ sc_pc = "fanout"
         /\ i <= Len(sc_tasks)
         /\ sc_tasks[i] # <<>>
         /\ AnswerStatus(sc_resp.markets[i], 1) = HTTP_TOO_MANY) =>
            /\ GetsFor(sc_resp.markets[i].ticker) >= 2
            /\ sc_tasks[i] = <<"none">> =>
                  \A k \in 1..(DEFAULT_RETRIES + 1) :
                      AnswerStatus(sc_resp.markets[i], k) >= HTTP_ERROR_MIN


\* The scan's state bookkeeping after each step, for C27.
ScanWithinCap ==
    \* each page request asks for min(100, limit - fetched) markets
    /\ \A k \in 1..Len(sc_reqs) :
          /\ sc_reqs[k].limit = Min(BATCH_MAX, sc_limit - sc_reqs[k].fetched)
          /\ sc_reqs[k].limit >= 1
    \* a further page is requested only below the limit and after a page
    \* that held markets and a cursor
    /\ sc_pc = "list" =>
          /\ sc_fetched < sc_limit
          /\ sc_reqs # <<>> => (sc_resp.markets # <<>> /\ sc_resp.cursor # 0)
    \* the scan returns only at one of the three stops
    /\ sc_result.kind = "return" =>
          \/ sc_fetched >= sc_limit
          \/ sc_resp.markets = <<>>
          \/ sc_resp.cursor = 0
    \* every iteration fetches at least one market, so the requests are
    \* bounded by the limit
    /\ Len(sc_reqs) <= sc_fetched + 1
    /\ sc_served.honours_limit =>
          /\ Len(sc_reqs) <= Max(1, sc_limit)
          /\ sc_fetched <= sc_limit
          /\ Len(sc_scanned) <= sc_limit

\* C27: scan_all_open_markets terminates and respects its cap: each page
\* request asks for min(100, limit - fetched) markets, the loop stops at
\* the first page without markets or without a cursor or once fetched >=
\* limit, and when no page holds more markets than requested at most limit
\* markets are scanned.
C27_ScanTerminatesWithinCap == []ScanWithinCap /\ <>(sc_pc = "done")

\* Limit 3 over pages of two: requests for 3 and then for 1 market.
C27_Witness ==
    /\ sc_pc = "done"
    /\ sc_result.kind = "return"
    /\ sc_served.honours_limit
    /\ sc_limit = 3
    /\ Len(sc_served.markets) = 3
    /\ sc_served.trailing
    /\ sc_reqs = <<[limit |-> 3, fetched |-> 0], [limit |-> 1, fetched |-> 2]>>
    /\ Len(sc_scanned) = 3


\* ------------------------------------------------------------------------
\* Batch processing (risk_execution_agent.py, lines 206-228)
\* ------------------------------------------------------------------------
RECURSIVE SumPositions(_)
SumPositions(orders) ==
    IF orders = <<>> THEN 0
    ELSE Head(orders).kelly.position_size_cents + SumPositions(Tail(orders))

\* The index in or_signals of the i-th of the signals that passed the gate.
PassedIndex(passed, i) ==
    CHOOSE j \in passed : Cardinality({k \in passed : k <= j}) = i

\* C30 as stated: the orders of the cycle never over-commit: their
\* positions sum to at most the bankroll and no ticker has two orders.
C30_NoOverCommit ==
    /\ SumPositions(or_orders) <= or_bankroll
    /\ Distinct(Tickers(or_orders))

\* C30, amended: process_signals commits one order per signal that passes
\* the sizing gate, in signal order, each sized on its own against the
\* whole bankroll and capped at max_position_usd; nothing bounds the sum
\* and a ticker with several passing signals gets one order per signal.
C30_IndependentSizing ==
    or_pc \in {"process", "execute"} =>
        LET passed == GatePassed
        IN /\ Len(or_orders) = Cardinality(passed)
           /\ \A i \in 1..Len(or_orders) :
              LET sig == or_signals[PassedIndex(passed, i)]
              IN /\ or_orders[i].signal = sig
                 /\ or_orders[i].ticker = sig.ticker
                 /\ or_orders[i].kelly = Size(sig, or_bankroll, or_cfg)
                 /\ or_orders[i].kelly.position_size_cents <= or_cfg.max_position_cents

\* Orders of one live cycle, two of them on the same ticker, that sum to
\* more than the bankroll.
C30_Witness ==
    /\ or_pc = "process"
    /\ or_bankroll > 0
    /\ SumPositions(or_orders) > or_bankroll
    /\ \E i, j \in 1..Len(or_orders) :
          i # j /\ or_orders[i].ticker = or_orders[j].ticker

====
